---- MODULE Spec2Model ----
(***************************************************************************)
(* Surana Hospital dashboard: the data reconciliation pipeline             *)
(* (scripts/utils.py, scripts/data_cleaner.py, scripts/data_loader.py,     *)
(* scripts/merge_data.py), the report filter (dashboard/filters.py) and    *)
(* the age banding of the NABL report (Hospital_dashboard.py).             *)
(*                                                                         *)
(* Text is a sequence of one-character strings.  A missing cell (pandas    *)
(* NaN / NA / None) is the one-element sequence NA, which is no text.      *)
(* Amounts are integers counted in 1/Scale of a currency unit; a missing   *)
(* amount is the record NaN.                                               *)
(***************************************************************************)
EXTENDS Integers, Sequences, FiniteSets, TLC

VARIABLES
  \* clean_name applied to a name, then to its own result
  name_arg, name_once, name_twice, name_pc,
  \* get_age_group applied to an age
  age_arg, age_group,
  \* compute_revenue applied to a row
  rev_row, rev_out, rev_pc,
  \* load_tpa_sheet: the arguments, the loop counter, what was fetched
  tpa_retries, tpa_delay, tpa_attempt, tpa_log, tpa_slept, tpa_result, tpa_pc,
  \* filter_ip_data: the session's table, the arguments, the outcome
  flt_table, flt_args, flt_result, flt_pc,
  \* merge_data: the loaded sources, the cleaned tables, the fact table
  data, admission_df, discharge_df, ip_detail_df, lookups, ip_detail_agg,
  ip_merge_df, op_merge_df, merge_pc,
  \* the dashboard: the session's tables, the two cache files, the place in
  \* the Refresh handler, the message shown; and, for the record, the number
  \* of the refresh, the session and files as they were when it began, the
  \* last refresh of the session that ended in success, the session's tables
  \* after its start
  session_ip_data, session_op_data, ip_data_csv, op_data_csv, app_pc, message,
  refresh_no, before_refresh, last_success, at_start,
  \* the prior-period window of a selected date range
  per_start, per_end, per_prev, per_pc,
  \* generate_agewise_report: the fact table, the month and year, the summary
  rpt_df, rpt_month, rpt_year, rpt_summary, rpt_pc,
  \* ip_filter_ui and the IP Details tab: the session's table, the date
  \* range, what ip_filter_ui returned, what filter_ip_data returned for it
  ui_table, ui_date, ui_filters, ui_details, ui_pc

nameVars == <<name_arg, name_once, name_twice, name_pc>>

ageVars == <<age_arg, age_group>>

revVars == <<rev_row, rev_out, rev_pc>>

tpaVars == <<tpa_retries, tpa_delay, tpa_attempt, tpa_log, tpa_slept, tpa_result, tpa_pc>>

fltVars == <<flt_table, flt_args, flt_result, flt_pc>>

mergeVars == <<data, admission_df, discharge_df, ip_detail_df, lookups, ip_detail_agg,
               ip_merge_df, op_merge_df, merge_pc>>

appVars == <<session_ip_data, session_op_data, ip_data_csv, op_data_csv, app_pc, message,
             refresh_no, before_refresh, last_success, at_start>>

perVars == <<per_start, per_end, per_prev, per_pc>>

rptVars == <<rpt_df, rpt_month, rpt_year, rpt_summary, rpt_pc>>

uiVars == <<ui_table, ui_date, ui_filters, ui_details, ui_pc>>

vars == <<nameVars, ageVars, revVars, tpaVars, fltVars, mergeVars, appVars, perVars, rptVars,
          uiVars>>

\* What a step of one part leaves alone: all the other parts.
notName == <<ageVars, revVars, tpaVars, fltVars, mergeVars, appVars, perVars, rptVars, uiVars>>

notAge == <<nameVars, revVars, tpaVars, fltVars, mergeVars, appVars, perVars, rptVars, uiVars>>

notRev == <<nameVars, ageVars, tpaVars, fltVars, mergeVars, appVars, perVars, rptVars, uiVars>>

notTpa == <<nameVars, ageVars, revVars, fltVars, mergeVars, appVars, perVars, rptVars, uiVars>>

notFlt == <<nameVars, ageVars, revVars, tpaVars, mergeVars, appVars, perVars, rptVars, uiVars>>

notMerge == <<nameVars, ageVars, revVars, tpaVars, fltVars, appVars, perVars, rptVars, uiVars>>

notApp == <<nameVars, ageVars, revVars, tpaVars, fltVars, perVars, rptVars, uiVars>>

notPer == <<nameVars, ageVars, revVars, tpaVars, fltVars, mergeVars, appVars, rptVars, uiVars>>

notUi == <<nameVars, ageVars, revVars, tpaVars, fltVars, mergeVars, appVars, perVars, rptVars>>

notRpt == <<nameVars, ageVars, revVars, tpaVars, fltVars, mergeVars, appVars, perVars, uiVars>>

(***************************************************************************)
(* Generic helpers                                                         *)
(***************************************************************************)
NA == <<"<NA>">>

isna(x) == x = NA

RECURSIVE SeqsUpTo(_, _)
SeqsUpTo(S, n) ==
  IF n = 0 THEN {<<>>}
  ELSE LET shorter == SeqsUpTo(S, n - 1)
       IN  shorter \cup {Append(s, c) : s \in {t \in shorter : Len(t) = n - 1}, c \in S}

(***************************************************************************)
(* scripts/utils.py: clean_name                                            *)
(***************************************************************************)
MaxNameLen == 3

NameChars == {"D", "r", "M", "s", "x", " ", ".", "(", "-"}

Names == SeqsUpTo(NameChars, MaxNameLen)

\* str.upper() and the folding re.IGNORECASE does, on the characters used.
upper(c) ==
  CASE c = "d" -> "D" [] c = "r" -> "R" [] c = "m" -> "M"
    [] c = "s" -> "S" [] c = "x" -> "X" [] OTHER -> c

\* \w of the re module: letters, digits and underscore.
IsWordChar(c) == upper(c) \in {"D", "R", "M", "S", "X", "A", "B", "1", "2", "_"}

IsSpaceChar(c) == c = " "

\* \b before position p of s (1-based): exactly one side is a word character.
WordBoundary(s, p) ==
  LET before == p > 1 /\ p - 1 <= Len(s) /\ IsWordChar(s[p - 1])
      after  == p >= 1 /\ p <= Len(s) /\ IsWordChar(s[p])
  IN  before # after

\* The literal lit matches s at position i, ignoring case.
LitAt(s, i, lit) ==
  /\ i + Len(lit) - 1 <= Len(s)
  /\ \A k \in 1..Len(lit) : upper(s[i + k - 1]) = upper(lit[k])

\* Length matched by  lit \.? \b  at i (the dot is greedy, given up on
\* backtracking), 0 when the alternative fails.
AltLen(s, i, lit) ==
  IF ~LitAt(s, i, lit) THEN 0
  ELSE LET e == i + Len(lit)
       IN  IF e <= Len(s) /\ s[e] = "." /\ WordBoundary(s, e + 1) THEN Len(lit) + 1
           ELSE IF WordBoundary(s, e) THEN Len(lit)
           ELSE 0

\* Length matched by  \b(Dr|Mr|Mrs)\.?\b  at i: the first alternative that
\* lets the whole pattern match wins.
TitleLen(s, i) ==
  IF ~WordBoundary(s, i) THEN 0
  ELSE LET a == AltLen(s, i, <<"D", "r">>)
           b == AltLen(s, i, <<"M", "r">>)
           c == AltLen(s, i, <<"M", "r", "s">>)
       IN  IF a > 0 THEN a ELSE IF b > 0 THEN b ELSE c

\* re.sub(r"\b(Dr|Mr|Mrs)\.?\b", "", s, flags=re.IGNORECASE): the matches are
\* found left to right in the original text and do not overlap.
RECURSIVE SubTitles(_, _)
SubTitles(s, i) ==
  IF i > Len(s) THEN <<>>
  ELSE LET n == TitleLen(s, i)
       IN  IF n > 0 THEN SubTitles(s, i + n)
           ELSE <<s[i]>> \o SubTitles(s, i + 1)

IsNotBracketOrDot(c) == c \notin {"(", ")", "."}

IsNotSpace(c) == ~IsSpaceChar(c)

UpperText(s) == [k \in 1..Len(s) |-> upper(s[k])]

clean_name(name) ==
  IF isna(name) THEN <<>>
  ELSE UpperText(SelectSeq(SelectSeq(SubTitles(name, 1), IsNotBracketOrDot), IsNotSpace))

\* ---- the name-cleaning specification: clean a name, then clean the result
StartName ==
  /\ name_arg \in Names \cup {NA}
  /\ name_once = NA
  /\ name_twice = NA
  /\ name_pc = "raw"

IdleName ==
  /\ name_arg = NA
  /\ name_once = NA
  /\ name_twice = NA
  /\ name_pc = "idle"

CleanOnce ==
  /\ name_pc = "raw"
  /\ name_once' = clean_name(name_arg)
  /\ name_pc' = "once"
  /\ UNCHANGED <<name_arg, name_twice, notName>>

CleanTwice ==
  /\ name_pc = "once"
  /\ name_twice' = clean_name(name_once)
  /\ name_pc' = "twice"
  /\ UNCHANGED <<name_arg, name_once, notName>>

(***************************************************************************)
(* Hospital_dashboard.py: get_age_group                                    *)
(***************************************************************************)
\* Ages are counted in 1/AgeUnit of a year, from -AgeUnit to MaxAge years.
AgeUnit == 10

MaxAge == 70

Age18 == 18

Age65 == 65

\* What an Age cell can hold: a number, the same number as text, the float
\* NaN (a missing age of the fact table), text that is no number, and None.
AgeNumbers == (0 - AgeUnit)..(MaxAge * AgeUnit)

AgeCells ==
  [kind : {"num", "numtext"}, v : AgeNumbers]
    \cup [kind : {"nan", "text", "none"}, v : {0}]

\* float(age): raises (ValueError, TypeError) on text that is no number and
\* on None; float of NaN is NaN.
float(age) ==
  CASE age.kind \in {"num", "numtext"} -> [raised |-> FALSE, nan |-> FALSE, v |-> age.v]
    [] age.kind = "nan" -> [raised |-> FALSE, nan |-> TRUE, v |-> 0]
    [] OTHER -> [raised |-> TRUE, nan |-> FALSE, v |-> 0]

\* x < years, as Python compares floats: any comparison with NaN is False.
FloatLess(x, years) == ~x.nan /\ x.v < years * AgeUnit

get_age_group(age) ==
  LET f == float(age)
  IN  IF f.raised THEN "Unknown"
      ELSE IF FloatLess(f, Age18) THEN "Less than 18 years"
      ELSE IF FloatLess(f, Age65) THEN "Less than 65 years"
      ELSE "Greater than equal 65 years"

StartAge ==
  /\ age_arg \in AgeCells
  /\ age_group = "not called"

IdleAge ==
  /\ age_arg = [kind |-> "none", v |-> 0]
  /\ age_group = "idle"

CallAgeGroup ==
  /\ age_group = "not called"
  /\ age_group' = get_age_group(age_arg)
  /\ UNCHANGED <<age_arg, notAge>>

(***************************************************************************)
(* scripts/data_cleaner.py: compute_revenue                                *)
(***************************************************************************)
\* Amounts of the revenue specification range over -1..MaxAmt.
MaxAmt == 2

\* A cell of a numeric column: a float (num), NaN, or a string: the digits
\* of a number (str, "600"), a number in parentheses (paren, "(600)"), a
\* number with thousands commas (comma, "1,000"), or no number (text).
NaN == [k |-> "nan", v |-> 0]

Num(n) == [k |-> "num", v |-> n]

TextCell == [k |-> "text", v |-> 0]

StrCell(n) == [k |-> "str", v |-> n]

ParenCell(n) == [k |-> "paren", v |-> n]

CommaCell(n) == [k |-> "comma", v |-> n]

AmountCells == {Num(n) : n \in (0 - 1)..MaxAmt} \cup {NaN, TextCell}

\* pd.to_numeric(x, errors='coerce'): a float stays, the digits of a number
\* parse, anything else (brackets and commas included) becomes NaN.
to_numeric(x) == IF x.k \in {"num", "str"} THEN Num(x.v) ELSE NaN

\* Python's  x or 0 : 0 replaces a falsy x; NaN is truthy and stays NaN.
OrZero(x) == IF x.k = "num" /\ x.v = 0 THEN Num(0) ELSE x

\* Float comparison and addition: NaN compares False and propagates.
Positive(x) == x.k = "num" /\ x.v > 0

FloatAdd(x, y) == IF x.k = "num" /\ y.k = "num" THEN Num(x.v + y.v) ELSE NaN

\* row.get(key, 0)
RowGet(row, key) == IF key \in DOMAIN row THEN row[key] ELSE Num(0)

compute_revenue_swapped(row) ==
  LET stlmt_amt        == OrZero(to_numeric(RowGet(row, "stlmt_amt")))
      settlement_gross == OrZero(to_numeric(RowGet(row, "Settlement Gross")))
      depbalamt        == OrZero(to_numeric(RowGet(row, "DepBalAmt")))
      approved_amt     == OrZero(to_numeric(RowGet(row, "Approved Amt")))
      bill_amt         == OrZero(to_numeric(RowGet(row, "BillAmt")))
  IN  IF Positive(stlmt_amt) THEN stlmt_amt
      ELSE IF Positive(approved_amt) THEN FloatAdd(approved_amt, depbalamt)
      ELSE IF Positive(settlement_gross) THEN FloatAdd(settlement_gross, depbalamt)
      ELSE bill_amt

compute_revenue(row) ==
  LET stlmt_amt        == OrZero(to_numeric(RowGet(row, "stlmt_amt")))
      settlement_gross == OrZero(to_numeric(RowGet(row, "Settlement Gross")))
      depbalamt        == OrZero(to_numeric(RowGet(row, "DepBalAmt")))
      approved_amt     == OrZero(to_numeric(RowGet(row, "Approved Amt")))
      bill_amt         == OrZero(to_numeric(RowGet(row, "BillAmt")))
  IN  IF Positive(stlmt_amt) THEN stlmt_amt
      ELSE IF Positive(settlement_gross) THEN FloatAdd(settlement_gross, depbalamt)
      ELSE IF Positive(approved_amt) THEN FloatAdd(approved_amt, depbalamt)
      ELSE bill_amt

RevenueKeys == {"stlmt_amt", "Settlement Gross", "DepBalAmt", "Approved Amt", "BillAmt"}

NoRow == [k \in {"none"} |-> NaN]

StartRevenue ==
  /\ rev_row \in [RevenueKeys -> AmountCells]
  /\ rev_out = NaN
  /\ rev_pc = "call"

IdleRevenue ==
  /\ rev_row = NoRow
  /\ rev_out = NaN
  /\ rev_pc = "idle"

CallComputeRevenue ==
  /\ rev_pc = "call"
  /\ rev_out' = compute_revenue(rev_row)
  /\ rev_pc' = "returned"
  /\ UNCHANGED <<rev_row, notRev>>

(***************************************************************************)
(* scripts/data_loader.py: load_tpa_sheet                                  *)
(***************************************************************************)
\* The retries argument ranges over 0..MaxRetries and its default.
MaxRetries == 3

DefaultRetries == 5

DefaultDelay == 3

\* What one call of read_sheet_to_df can do: return the sheet's rows, return
\* an empty table (a sheet without values), raise requests' SSLError, or
\* raise any other Exception.
FetchOutcomes == {"table", "empty sheet", "SSLError", "Exception"}

FetchFailed(outcome) == outcome \in {"SSLError", "Exception"}

\* for attempt in range(1, retries + 1): is there an attempt after `attempt`?
HasNextAttempt_Extra(attempt, retries) == attempt + 1 <= retries + 1

HasNextAttempt(attempt, retries) == attempt + 1 <= retries

StartTpa ==
  /\ tpa_retries \in (0..MaxRetries) \cup {DefaultRetries}
  /\ tpa_delay \in {0, DefaultDelay}
  /\ tpa_attempt = 0
  /\ tpa_log = <<>>
  /\ tpa_slept = 0
  /\ tpa_result = "none"
  /\ tpa_pc = "for"

IdleTpa ==
  /\ tpa_retries = 0
  /\ tpa_delay = 0
  /\ tpa_attempt = 0
  /\ tpa_log = <<>>
  /\ tpa_slept = 0
  /\ tpa_result = "none"
  /\ tpa_pc = "idle"

\* The for statement: take the next attempt number, or leave the loop.
TpaFor ==
  /\ tpa_pc = "for"
  /\ IF HasNextAttempt(tpa_attempt, tpa_retries)
       THEN tpa_attempt' = tpa_attempt + 1 /\ tpa_pc' = "try"
       ELSE tpa_attempt' = tpa_attempt /\ tpa_pc' = "exhausted"
  /\ UNCHANGED <<tpa_retries, tpa_delay, tpa_log, tpa_slept, tpa_result, notTpa>>

\* try: df = read_sheet_to_df(url, sheet_name); return df
\* except SSLError / except Exception: go on to time.sleep(delay)
TpaTry ==
  /\ tpa_pc = "try"
  /\ \E outcome \in FetchOutcomes :
       /\ tpa_log' = Append(tpa_log, outcome)
       /\ IF FetchFailed(outcome)
            THEN tpa_pc' = "sleep" /\ tpa_result' = tpa_result
            ELSE tpa_pc' = "returned" /\ tpa_result' = outcome
  /\ UNCHANGED <<tpa_retries, tpa_delay, tpa_attempt, tpa_slept, notTpa>>

\* time.sleep(delay) in either except clause, then back to the for statement.
TpaSleep ==
  /\ tpa_pc = "sleep"
  /\ tpa_slept' = tpa_slept + tpa_delay
  /\ tpa_pc' = "for"
  /\ UNCHANGED <<tpa_retries, tpa_delay, tpa_attempt, tpa_log, tpa_result, notTpa>>

\* After the loop: return pd.DataFrame()
TpaGiveUp ==
  /\ tpa_pc = "exhausted"
  /\ tpa_result' = "empty table"
  /\ tpa_pc' = "returned"
  /\ UNCHANGED <<tpa_retries, tpa_delay, tpa_attempt, tpa_log, tpa_slept, notTpa>>

load_tpa_sheet == TpaFor \/ TpaTry \/ TpaSleep \/ TpaGiveUp

(***************************************************************************)
(* dashboard/filters.py: filter_ip_data                                    *)
(***************************************************************************)
\* Tables of the filter specification hold at most MaxRows rows.
MaxRows == 2

\* Timestamps count 1/TicksPerDay of a day; a date is its day's midnight.
TicksPerDay == 2

NaT == [nat |-> TRUE, t |-> 0]

Timestamp(t) == [nat |-> FALSE, t |-> t]

\* pd.to_datetime of a 'YYYY-MM-DD' date: midnight of that day.
to_datetime_date(day) == Timestamp(day * TicksPerDay)

\* The categorical columns, in the order filter_ip_data applies its filters,
\* each with the keyword argument that filters it.
FilterOrder ==
  << [arg |-> "doc_name",             col |-> "DocName"],
     [arg |-> "ref_name",             col |-> "refname"],
     [arg |-> "consultant_specialty", col |-> "consultant_specialty"],
     [arg |-> "group",                col |-> "Group"],
     [arg |-> "referral_specialty",   col |-> "referral_specialty"],
     [arg |-> "credit_company",       col |-> "CREDIT COMPANY"],
     [arg |-> "tpa_corporate",        col |-> "TPA/CORPORATE"],
     [arg |-> "patient_expired",      col |-> "patient_expired"],
     [arg |-> "case_type",            col |-> "cse_typ_dcd"] >>

CatColumns == {FilterOrder[i].col : i \in 1..Len(FilterOrder)}

CatArgs == {FilterOrder[i].arg : i \in 1..Len(FilterOrder)}

\* str.lower() on the characters used.
lower(c) ==
  CASE c = "D" -> "d" [] c = "R" -> "r" [] c = "M" -> "m"
    [] c = "S" -> "s" [] c = "X" -> "x" [] c = "Z" -> "z" [] OTHER -> c

LowerText(s) == [k \in 1..Len(s) |-> lower(s[k])]

\* A keyword argument: None, one string, or a list of strings.
NoneArg == [kind |-> "none", vals |-> <<>>]

StrArg(s) == [kind |-> "str", vals |-> <<s>>]

ListArg(l) == [kind |-> "list", vals |-> l]

\* Python truth of an argument: None, "" and [] are falsy.
Truthy(a) ==
  CASE a.kind = "none" -> FALSE
    [] a.kind = "str" -> a.vals[1] # <<>>
    [] OTHER -> a.vals # <<>>

\* The dtype pandas gives a text column.  merge_data builds its columns as
\* string/object columns.  pd.read_csv infers float64 for a column whose
\* every cell is empty (the table has rows), object otherwise.
ColumnDtype(table, col) ==
  IF /\ table.origin = "read_csv"
     /\ table.rows # <<>>
     /\ \A i \in 1..Len(table.rows) : isna(table.rows[i][col])
  THEN "float64"
  ELSE "object"

\* Series.str raises AttributeError on a column that is not of a text dtype.
StrAccessorRaises(table, col) == ColumnDtype(table, col) = "float64"

\* column.str.lower().isin([x.lower() for x in values]) and
\* column.str.lower() == value.lower(): a missing cell gives False.
CellMatches(cell, a) ==
  /\ ~isna(cell)
  /\ \E k \in 1..Len(a.vals) : LowerText(cell) = LowerText(a.vals[k])

\* A window that lets a missing timestamp through.
InDateWindow_NaTPasses(ts, window) ==
  \/ ts.nat
  \/ /\ ts.t >= to_datetime_date(window.s).t
     /\ ts.t <= to_datetime_date(window.e).t

\* (to_datetime(dschg_dt) >= start_date) & (to_datetime(dschg_dt) <= end_date):
\* a comparison with NaT is False.
InDateWindow(ts, window) ==
  /\ ~ts.nat
  /\ ts.t >= to_datetime_date(window.s).t
  /\ ts.t <= to_datetime_date(window.e).t

\* if date_filter: if isinstance(date_filter, tuple) and len(date_filter) == 2
DateFilterApplies(window) == window.kind = "tuple"

RECURSIVE ApplyCatFilters(_, _, _, _)
ApplyCatFilters(table, args, rows, i) ==
  IF i > Len(FilterOrder) THEN [status |-> "returned", rows |-> rows]
  ELSE LET f == FilterOrder[i]
           a == args[f.arg]
       IN  IF ~Truthy(a) THEN ApplyCatFilters(table, args, rows, i + 1)
           ELSE IF StrAccessorRaises(table, f.col)
                  THEN [status |-> "AttributeError", rows |-> <<>>]
           ELSE LET Keep(row) == CellMatches(row[f.col], a)
                IN  ApplyCatFilters(table, args, SelectSeq(rows, Keep), i + 1)

filter_ip_data(table, args) ==
  LET InWindow(row) == InDateWindow(row["dschg_dt"], args["date_filter"])
      dated == IF DateFilterApplies(args["date_filter"])
                 THEN SelectSeq(table.rows, InWindow)
                 ELSE table.rows
  IN  ApplyCatFilters(table, args, dated, 1)

\* ---- the filter specification: a table of the session and one call
CellTexts == {<<"r">>, <<"S">>}

\* A discharge timestamp: missing, midnight of day 1, or later on day 1.
RowDates == {NaT, Timestamp(TicksPerDay), Timestamp(TicksPerDay + 1)}

\* A fact-table row whose column col holds v; the other columns hold "x".
MkRow(col, v, d) ==
  [c \in CatColumns \cup {"dschg_dt"} |->
     IF c = "dschg_dt" THEN d ELSE IF c = col THEN v ELSE <<"x">>]

\* The tables whose rows vary in column i of FilterOrder.
FilterTables(i) ==
  { [origin |-> o, rows |-> rs] :
      o \in {"merge_data", "read_csv"},
      rs \in SeqsUpTo({MkRow(FilterOrder[i].col, v, d) :
                         v \in CellTexts \cup {NA}, d \in RowDates}, MaxRows) }

DateFilters ==
  { [kind |-> "none", s |-> 0, e |-> 0],
    [kind |-> "tuple", s |-> 1, e |-> 1],
    [kind |-> "tuple", s |-> 0, e |-> 2] }

FirstArgs ==
  { NoneArg, StrArg(<<>>), StrArg(<<"R">>), StrArg(<<"z">>), ListArg(<<<<"r">>, <<"s">>>>) }

SecondArgs == { NoneArg, ListArg(<<<<"X">>>>) , StrArg(<<"z">>) }

\* Keyword arguments filtering column i by a, the next column by b, and the
\* discharge date by w.
MkArgs(i, a, b, w) ==
  LET j == (i % Len(FilterOrder)) + 1
  IN  [k \in CatArgs \cup {"date_filter"} |->
         IF k = "date_filter" THEN w
         ELSE IF k = FilterOrder[i].arg THEN a
         ELSE IF k = FilterOrder[j].arg THEN b
         ELSE NoneArg]

\* The calls that filter column i, the column after it and the date.
FilterCalls(i) ==
  { MkArgs(i, a, b, w) : a \in FirstArgs, b \in SecondArgs, w \in DateFilters }

NoTable == [origin |-> "none", rows |-> <<>>]

NoResult == [status |-> "not called", rows |-> <<>>]

StartFilter ==
  /\ \E i \in 1..Len(FilterOrder) :
       /\ flt_table \in FilterTables(i)
       /\ flt_args \in FilterCalls(i)
  /\ flt_result = NoResult
  /\ flt_pc = "call"

IdleFilter ==
  /\ flt_table = NoTable
  /\ flt_args = MkArgs(1, NoneArg, NoneArg, [kind |-> "none", s |-> 0, e |-> 0])
  /\ flt_result = NoResult
  /\ flt_pc = "idle"

CallFilter ==
  /\ flt_pc = "call"
  /\ flt_result' = filter_ip_data(flt_table, flt_args)
  /\ flt_pc' = "done"
  /\ UNCHANGED <<flt_table, flt_args, notFlt>>

(***************************************************************************)
(* scripts/utils.py: clean_numeric_column; dataframe helpers               *)
(***************************************************************************)
\* astype(str), the characters ( ) , removed, stripped, pd.to_numeric with
\* errors='coerce': brackets and commas go, what is still no number is NaN.
clean_numeric_column(x) ==
  IF x.k \in {"num", "str", "paren", "comma"} THEN Num(x.v) ELSE NaN

\* A raw date cell: a day-first date that parses (dmy), other text, or blank.
DmyCell(t) == [k |-> "dmy", t |-> t]

BadDateCell == [k |-> "text", t |-> 0]

\* pd.to_datetime(..., dayfirst=True, errors='coerce')
to_datetime(x) == IF x.k = "dmy" THEN Timestamp(x.t) ELSE NaT

\* ---- the calendar: a year of three months, of 3, 2 and 3 days; day 0 is
\* the first day of the first month of year 0; a timestamp counts the ticks
\* since midnight of day 0.
MonthLengths == <<3, 2, 3>>

MonthNames == <<<<"J", "a", "n">>, <<"F", "e", "b">>, <<"M", "a", "r">>>>

RECURSIVE SumTo(_, _)
SumTo(lengths, n) == IF n = 0 THEN 0 ELSE lengths[n] + SumTo(lengths, n - 1)

DaysPerYear == SumTo(MonthLengths, Len(MonthLengths))

DayOf(ts) == ts.t \div TicksPerDay

YearOfDay(d) == d \div DaysPerYear

\* The month (1-based) and the day of the month (1-based) of day d.
MonthOfDay(d) ==
  LET r == d % DaysPerYear
  IN  CHOOSE m \in 1..Len(MonthLengths) :
        SumTo(MonthLengths, m - 1) <= r /\ r < SumTo(MonthLengths, m)

DayOfMonth(d) == (d % DaysPerYear) - SumTo(MonthLengths, MonthOfDay(d) - 1) + 1

\* Series.dt.year, dt.month, dt.month_name(): missing for NaT.
dt_year(ts) == IF ts.nat THEN NaN ELSE Num(YearOfDay(DayOf(ts)))

dt_month(ts) == IF ts.nat THEN NaN ELSE Num(MonthOfDay(DayOf(ts)))

dt_month_name(ts) == IF ts.nat THEN NA ELSE MonthNames[MonthOfDay(DayOf(ts))]

\* str.strip(): leading and trailing whitespace removed.
RECURSIVE LStrip(_)
LStrip(s) == IF s # <<>> /\ IsSpaceChar(Head(s)) THEN LStrip(Tail(s)) ELSE s

RECURSIVE RStrip(_)
RStrip(s) ==
  IF s # <<>> /\ IsSpaceChar(s[Len(s)]) THEN RStrip(SubSeq(s, 1, Len(s) - 1)) ELSE s

Strip(s) == RStrip(LStrip(s))

\* astype(str) of a text cell: a missing value becomes the text "nan".
AsStr(x) == IF isna(x) THEN <<"n", "a", "n">> ELSE x

\* The characters outside \x00-\x7F.
IsAscii(c) == c \notin {"é"}

\* replace(r'[^\x00-\x7F]+', '', regex=True)
RemoveNonAscii(s) == SelectSeq(s, IsAscii)

\* drop_duplicates(subset=key, keep='first')
RECURSIVE DropDuplicatesFirst(_, _, _)
DropDuplicatesFirst(rows, key, seen) ==
  IF rows = <<>> THEN <<>>
  ELSE IF Head(rows)[key] \in seen THEN DropDuplicatesFirst(Tail(rows), key, seen)
  ELSE <<Head(rows)>> \o DropDuplicatesFirst(Tail(rows), key, seen \cup {Head(rows)[key]})

\* drop_duplicates(subset=key, keep='last')
DropDuplicatesLast(rows, key) ==
  LET IsLast(i) == \A j \in (i + 1)..Len(rows) : rows[j][key] # rows[i][key]
      idx == {i \in 1..Len(rows) : IsLast(i)}
      RECURSIVE Pick(_)
      Pick(i) == IF i > Len(rows) THEN <<>>
                 ELSE IF i \in idx THEN <<rows[i]>> \o Pick(i + 1) ELSE Pick(i + 1)
  IN  Pick(1)

\* sort_values(key) on a timestamp column, ascending, NaT last; rows with
\* equal keys keep their order.
DateBefore(x, y) == ~x.nat /\ (y.nat \/ x.t < y.t)

RECURSIVE InsertByDate(_, _, _)
InsertByDate(sorted, row, key) ==
  IF sorted = <<>> THEN <<row>>
  ELSE IF DateBefore(row[key], Head(sorted)[key]) THEN <<row>> \o sorted
  ELSE <<Head(sorted)>> \o InsertByDate(Tail(sorted), row, key)

RECURSIVE SortByDate(_, _)
SortByDate(rows, key) ==
  IF rows = <<>> THEN <<>>
  ELSE InsertByDate(SortByDate(SubSeq(rows, 1, Len(rows) - 1), key), rows[Len(rows)], key)

KeysUnique(rows, key) ==
  \A i, j \in 1..Len(rows) : rows[i][key] = rows[j][key] => i = j

\* left.merge(right, how='left') on left[lkey] = right[rkey] with right's keys
\* unique: each left row once, with the columns of its match or with `blank`.
LeftJoin(left, lkey, right, rkey, blank) ==
  LET Match(row) == {j \in 1..Len(right) : right[j][rkey] = row[lkey]}
      Joined(row) ==
        IF Match(row) = {} THEN row @@ blank
        ELSE row @@ right[CHOOSE j \in Match(row) : TRUE]
  IN  [i \in 1..Len(left) |-> Joined(left[i])]

\* A source as load_all_data hands it over: None (a folder without CSV
\* files), a table lacking an expected column, or a table with its rows.
NoneTable == [state |-> "None", rows |-> <<>>]

BadColumns(rows) == [state |-> "columns missing", rows |-> rows]

Table(rows) == [state |-> "ok", rows |-> rows]

\* A selection that raises on None only.
SelectRaises_NoneOnly(df) == df.state = "None"

\* df[columns_to_keep] raises TypeError on None and KeyError on a table that
\* lacks one of the columns.
SelectRaises(df) == df.state # "ok"

(***************************************************************************)
(* scripts/data_cleaner.py: the per-source cleaners                        *)
(* A cleaner returns [raised, rows].  Of each source the columns carried   *)
(* are the keys, the amounts, the dates and the texts merge_data reads.    *)
(***************************************************************************)
Raised == [raised |-> TRUE, rows |-> <<>>]

Cleaned(rows) == [raised |-> FALSE, rows |-> rows]

HasDate(row) == ~row["adm_dt"].nat

HasIpNo(row) == row["ip_no"] # <<>>

clean_admission_list(df) ==
  IF SelectRaises(df) THEN Raised
  ELSE LET stripped == [i \in 1..Len(df.rows) |->
                          [ip_no  |-> Strip(AsStr(df.rows[i]["ip_no"])),
                           adm_dt |-> to_datetime(df.rows[i]["Textbox73"])]]
           unique == DropDuplicatesFirst(SelectSeq(stripped, HasIpNo), "ip_no", {})
       IN  Cleaned(SelectSeq(unique, HasDate))

\* Textbox142 holds "Credit Company : NAME": a cell is [colon, name], the
\* name being the text after the first colon; a cell without colon (a
\* missing one reads "<NA>") has colon FALSE.  str.split(":", expand=True)[1]
\* is the name, None for a cell without colon, and a KeyError when no cell
\* of the column has a colon (there is no column 1).
HasColon(row) == row["Textbox142"].colon

credit_company_of(cell) ==
  IF cell.colon THEN UpperText(Strip(cell.name))
  ELSE <<"N", "O", "T", " ", "F", "O", "U", "N", "D">>

\* Lines 105-112: the columns of the register that are kept when it has
\* them (of these the model's registers carry Group).
OptionalColumns(row) == [c \in DOMAIN row \cap {"Group"} |-> row[c]]

clean_ip_discharge(df) ==
  IF SelectRaises(df) THEN Raised
  ELSE LET typed == [i \in 1..Len(df.rows) |->
                       [ip_no       |-> df.rows[i]["ip_no"],
                        ptn_no      |-> df.rows[i]["Ptn_No"],
                        cse_typ_dcd |-> df.rows[i]["cse_typ_dcd"],
                        DocName     |-> df.rows[i]["DocName"],
                        refname     |-> df.rows[i]["refname"],
                        Textbox142  |-> df.rows[i]["Textbox142"],
                        dschg_dt    |-> to_datetime(df.rows[i]["dschg_dt"]),
                        BillAmt     |-> clean_numeric_column(df.rows[i]["BillAmt"]),
                        stlmt_amt   |-> clean_numeric_column(df.rows[i]["stlmt_amt"]),
                        DepBalAmt   |-> clean_numeric_column(df.rows[i]["DepBalAmt"]),
                        dis_year    |-> dt_year(to_datetime(df.rows[i]["dschg_dt"])),
                        dis_month_name |-> dt_month_name(to_datetime(df.rows[i]["dschg_dt"]))]
                       @@ OptionalColumns(df.rows[i])]
           latest == DropDuplicatesLast(SortByDate(typed, "dschg_dt"), "ip_no")
       IN  IF \A i \in 1..Len(latest) : ~HasColon(latest[i]) THEN Raised
           ELSE Cleaned([i \in 1..Len(latest) |->
                  [c \in (DOMAIN latest[i] \ {"Textbox142"})
                        \cup {"CREDIT COMPANY", "Doctor Mapping", "Doctor_Mapping_referral"} |->
                     CASE c = "CREDIT COMPANY" -> credit_company_of(latest[i]["Textbox142"])
                       [] c = "Doctor Mapping" -> clean_name(latest[i]["DocName"])
                       [] c = "Doctor_Mapping_referral" -> clean_name(latest[i]["refname"])
                       [] OTHER -> latest[i][c]]])

clean_ip_detail(df) ==
  IF SelectRaises(df) THEN Raised
  ELSE Cleaned([i \in 1..Len(df.rows) |->
         [ip_no               |-> df.rows[i]["ip_no"],
          amt                 |-> clean_numeric_column(df.rows[i]["amt"]),
          service_description |-> df.rows[i]["srv_desc"],
          srv_desc_mapping    |-> clean_name(df.rows[i]["srv_desc"])]])

\* sort_values(by="crt_dt", ascending=False): latest first, NaT last.
DateAfter(x, y) == ~x.nat /\ (y.nat \/ x.t > y.t)

RECURSIVE InsertByDateDesc(_, _, _)
InsertByDateDesc(sorted, row, key) ==
  IF sorted = <<>> THEN <<row>>
  ELSE IF DateAfter(row[key], Head(sorted)[key]) THEN <<row>> \o sorted
  ELSE <<Head(sorted)>> \o InsertByDateDesc(Tail(sorted), row, key)

\* The rows sorted with the earliest first.
SortByDateDesc_Ascending(rows, key) == SortByDate(rows, key)

RECURSIVE SortByDateDesc(_, _)
SortByDateDesc(rows, key) ==
  IF rows = <<>> THEN <<>>
  ELSE InsertByDateDesc(SortByDateDesc(SubSeq(rows, 1, Len(rows) - 1), key),
                        rows[Len(rows)], key)

\* astype(str), every non-digit removed, to_numeric: the digits of a text
\* ("45", "45 Y") are its number, a float 45.0 reads "45.0" and becomes 450,
\* a text without digits and a missing value become NaN.
age_digits(x) ==
  CASE x.k \in {"str", "numtext"} -> Num(x.v)
    [] x.k = "num" -> Num(10 * x.v)
    [] OTHER -> NaN

clean_patient_details(df) ==
  IF SelectRaises(df) THEN Raised
  ELSE LET typed == [i \in 1..Len(df.rows) |->
                       [ptn_no |-> IF isna(df.rows[i]["ptn_no"]) THEN NA
                                   ELSE Strip(df.rows[i]["ptn_no"]),
                        crt_dt |-> to_datetime(df.rows[i]["crt_dt"]),
                        Age    |-> age_digits(df.rows[i]["Age"]),
                        sex    |-> df.rows[i]["sex"]]]
       IN  Cleaned(DropDuplicatesFirst(SortByDateDesc(typed, "crt_dt"), "ptn_no", {}))

clean_doctor_master(df) ==
  IF SelectRaises(df) THEN Raised
  ELSE LET keyed == [i \in 1..Len(df.rows) |->
                       [c \in {"Doctor Mapping", "SPECIALITY"} |->
                          IF c = "SPECIALITY" THEN df.rows[i]["SPECIALITY"]
                          ELSE clean_name(df.rows[i]["DOCTOR NAME"])]]
       IN  Cleaned(DropDuplicatesFirst(keyed, "Doctor Mapping", {}))

\* fillna('NOT APPLICABLE').apply(clean_name)
FillThenClean(x) ==
  clean_name(IF isna(x) THEN <<"N", "O", "T", " ", "A", "P", "P", "L", "I", "C", "A", "B", "L", "E">>
             ELSE x)

clean_code_master(df) ==
  IF SelectRaises(df) THEN Raised
  ELSE LET keyed == [i \in 1..Len(df.rows) |->
                       [c \in {"srv_desc_mapping", "srv_desc", "Group"} |->
                          IF c = "srv_desc_mapping" THEN clean_name(df.rows[i]["srv_desc"])
                          ELSE df.rows[i][c]]]
           unique == DropDuplicatesFirst(keyed, "srv_desc_mapping", {})
       IN  Cleaned([i \in 1..Len(unique) |->
             [c \in DOMAIN unique[i] |-> FillThenClean(unique[i][c])]])

clean_tpa_mapping_df(df) ==
  IF SelectRaises(df) THEN Raised
  ELSE LET keyed == [i \in 1..Len(df.rows) |->
                       [c \in {"company_mapping", "Company", "Type of Company"} |->
                          IF c = "company_mapping" THEN clean_name(df.rows[i]["Company"])
                          ELSE df.rows[i][c]]]
       IN  Cleaned(DropDuplicatesFirst(keyed, "company_mapping", {}))

clean_opd_detail(df) ==
  IF SelectRaises(df) THEN Raised
  ELSE Cleaned([i \in 1..Len(df.rows) |->
         [c \in {"vch_no", "vch_dt", "DoctorFullName", "UNITS1", "NetAmt", "Doctor Mapping"} |->
            CASE c = "vch_no" -> AsStr(df.rows[i]["vch_no"])
              [] c = "vch_dt" -> to_datetime(df.rows[i]["vch_dt"])
              [] c = "DoctorFullName" -> AsStr(df.rows[i]["DoctorFullName"])
              [] c = "Doctor Mapping" -> clean_name(AsStr(df.rows[i]["DoctorFullName"]))
              [] OTHER -> to_numeric(df.rows[i][c])]])

\* Textbox88 holds the credit company after a prefix "Credit Company:- <no>";
\* the cell is modelled by the text after the prefix, a missing cell reads
\* "nan".  The latest row per voucher is kept, as in clean_ip_discharge.
clean_op_discharge_df(df) ==
  IF SelectRaises(df) THEN Raised
  ELSE LET typed == [i \in 1..Len(df.rows) |->
                       [vch_no         |-> AsStr(df.rows[i]["vch_no"]),
                        ptn_no         |-> AsStr(df.rows[i]["ptn_no"]),
                        rev_dt1        |-> to_datetime(df.rows[i]["rev_dt1"]),
                        credit_company |-> UpperText(Strip(AsStr(df.rows[i]["Textbox88"])))]]
       IN  Cleaned(DropDuplicatesLast(SortByDate(typed, "rev_dt1"), "vch_no"))

clean_marketing_agent_df(df) ==
  IF SelectRaises(df) THEN Raised
  ELSE LET keyed == [i \in 1..Len(df.rows) |->
                       [c \in {"Marketing Agents", "mkt_agent_mapping"} |->
                          IF c = "mkt_agent_mapping"
                          THEN clean_name(df.rows[i]["Marketing Agents"])
                          ELSE df.rows[i][c]]]
       IN  Cleaned(DropDuplicatesFirst(keyed, "mkt_agent_mapping", {}))

\* astype(str).str.replace(',', '').astype(float): a float, the digits of a
\* number and a number with commas convert, a missing value reads "nan" and
\* converts to NaN; any other text (brackets included) is a ValueError.
FloatRaises(x) == x.k \in {"text", "paren"}

astype_float(x) == IF x.k \in {"num", "str", "comma"} THEN Num(x.v) ELSE NaN

clean_op_deposit(df) ==
  IF SelectRaises(df) THEN Raised
  ELSE IF \E i \in 1..Len(df.rows) :
            FloatRaises(df.rows[i]["Dep_Amt"]) \/ FloatRaises(df.rows[i]["Textbox29"])
  THEN Raised
  ELSE LET typed == [i \in 1..Len(df.rows) |->
                       [rev_dt       |-> to_datetime(df.rows[i]["rev_dt"]),
                        ptn_no       |-> AsStr(df.rows[i]["Textbox53"]),
                        deposit_type |-> Strip(AsStr(df.rows[i]["dep_typ_dcd1"])),
                        Dep_Amt      |-> astype_float(df.rows[i]["Dep_Amt"]),
                        package      |-> astype_float(df.rows[i]["Textbox29"])]]
       IN  Cleaned(DropDuplicatesFirst(typed, "ptn_no", {}))

(***************************************************************************)
(* scripts/merge_data.py: merge_data, the IP fact table                    *)
(***************************************************************************)
Scale == 2

MaxAdm == 2

MaxLines == 2

\* The Refresh clicks followed.
MaxRefresh == 2

Project(rows, cols) == [i \in 1..Len(rows) |-> [c \in cols |-> rows[i][c]]]

\* The value of column col in the row of `right` whose rkey equals value
\* (the keys of `right` are unique), `blank` when there is no such row.
Lookup(right, rkey, value, col, blank) ==
  LET match == {j \in 1..Len(right) : right[j][rkey] = value}
  IN  IF match = {} THEN blank ELSE right[CHOOSE j \in match : TRUE][col]

\* What a left join leaves in the columns of the right table for a row
\* without match.
DischargeBlank ==
  [c \in {"ptn_no", "cse_typ_dcd", "DocName", "refname", "dschg_dt", "BillAmt", "stlmt_amt",
          "DepBalAmt", "dis_year", "dis_month_name", "CREDIT COMPANY", "Doctor Mapping",
          "Doctor_Mapping_referral"} |->
     CASE c = "dschg_dt" -> NaT
       [] c \in {"BillAmt", "stlmt_amt", "DepBalAmt", "dis_year"} -> NaN
       [] OTHER -> NA]

\* The blank of a cleaned register, its optional columns included.
DischargeBlankFor(discharge) ==
  DischargeBlank @@
  [c \in (IF discharge = <<>> THEN {} ELSE DOMAIN discharge[1] \cap {"Group"}) |-> NA]

PatientBlank == [Age |-> NaN, sex |-> NA]

DetailBlank == [amt |-> NaN, service_description |-> NA, srv_desc_mapping |-> NA]

TpaBlank ==
  [c \in {"voucher_number", "Approved Amt", "Settlement Gross", "CREDIT_COMPANY_TPA"} |->
     IF c \in {"Approved Amt", "Settlement Gross"} THEN NaN ELSE NA]

\* groupby('ip_no'): the distinct keys that are not missing, a group each.
\* (pandas orders the groups by key; the left join that follows makes the
\* order immaterial, the groups are listed here by first occurrence.)
HasKey(row) == ~isna(row["ip_no"])

\* agg 'sum': the sum of the group's amounts, a NaN adding nothing.
RECURSIVE SumSkipNaN(_, _, _)
SumSkipNaN(rows, ip, col) ==
  IF rows = <<>> THEN 0
  ELSE (IF Head(rows)["ip_no"] = ip /\ Head(rows)[col].k = "num" THEN Head(rows)[col].v ELSE 0)
       + SumSkipNaN(Tail(rows), ip, col)

\* The same with a NaN poisoning the sum (sum(skipna=False)).
SumOf_NaNPoisons(rows, ip, col) ==
  IF \E i \in 1..Len(rows) : rows[i]["ip_no"] = ip /\ rows[i][col].k # "num" THEN NaN
  ELSE Num(SumSkipNaN(rows, ip, col))

SumOf(rows, ip, col) == Num(SumSkipNaN(rows, ip, col))

\* agg 'first': the first value of the group that is not missing.
FirstOf(rows, ip, col) ==
  LET idx == {i \in 1..Len(rows) : rows[i]["ip_no"] = ip /\ ~isna(rows[i][col])}
  IN  IF idx = {} THEN NA ELSE rows[CHOOSE i \in idx : \A j \in idx : i <= j][col]

GroupByIpNo(detail) ==
  LET keys == DropDuplicatesFirst(SelectSeq(detail, HasKey), "ip_no", {})
  IN  [i \in 1..Len(keys) |->
         [ip_no               |-> keys[i]["ip_no"],
          amt                 |-> SumOf(detail, keys[i]["ip_no"], "amt"),
          service_description |-> FirstOf(detail, keys[i]["ip_no"], "service_description"),
          srv_desc_mapping    |-> FirstOf(detail, keys[i]["ip_no"], "srv_desc_mapping")]]

\* fillna(0)
FillZero(x) == IF x.k = "num" THEN x ELSE Num(0)

\* astype(int) of a float counted in 1/Scale: truncation toward zero.
Abs(n) == IF n >= 0 THEN n ELSE 0 - n

TruncDiv(n, d) ==
  IF (n >= 0) = (d > 0) THEN Abs(n) \div Abs(d) ELSE 0 - (Abs(n) \div Abs(d))

\* groupby('ip_no')['amt'].transform('sum')
TotalAmt(rows, ip) == SumSkipNaN(rows, ip, "amt")

\* (amt / total) * revenue with the zero total made NaN, inf and NaN made 0,
\* astype(int): whole currency units.  Without the guard the division by a
\* zero total would be taken as leaving the revenue whole.
line_revenue_Unguarded(amt, total, revenue) ==
  IF total = 0 THEN TruncDiv(revenue, Scale) ELSE TruncDiv(amt * revenue, total * Scale)

line_revenue(amt, total, revenue) ==
  IF total = 0 THEN 0 ELSE TruncDiv(amt * revenue, total * Scale)

\* ---- merge_data, step by step.  merge_pc is the place in the function;
\* an exception anywhere leaves by the except clause, which raises.
NoTables == <<>>

IdleMerge ==
  /\ data = NoTables
  /\ admission_df = <<>>
  /\ discharge_df = <<>>
  /\ ip_detail_df = <<>>
  /\ lookups = NoTables
  /\ ip_detail_agg = <<>>
  /\ ip_merge_df = <<>>
  /\ op_merge_df = <<>>
  /\ merge_pc = "idle"

MergeRaise ==
  /\ merge_pc' = "raised"
  /\ ip_merge_df' = <<>>

\* Line 25, load_all_data: the folders and reference files are read and
\* the TPA sheet is fetched with read_sheet_to_df, outside any try: a fetch
\* that fails raises out of load_all_data.
MergeLoad ==
  /\ merge_pc = "load"
  /\ IF data["tpa_data_df"].state = "fetch failed" THEN MergeRaise
     ELSE /\ merge_pc' = "clean"
          /\ UNCHANGED ip_merge_df
  /\ UNCHANGED <<data, admission_df, discharge_df, ip_detail_df, lookups, ip_detail_agg,
                 op_merge_df, notMerge>>

\* Lines 41-55: the code master must not be empty, then every source is
\* cleaned; the first cleaner that raises ends the call.
MergeClean ==
  /\ merge_pc = "clean"
  /\ LET detail    == clean_ip_detail(data["ip_detail_df"])
         admission == clean_admission_list(data["admission_list"])
         discharge == clean_ip_discharge(data["ip_discharge_df"])
         patient   == clean_patient_details(data["patient_detail_df"])
         doctor    == clean_doctor_master(data["doctor_master_df"])
         code      == clean_code_master(data["code_master_df"])
         mapping   == clean_tpa_mapping_df(data["tpa_mapping_df"])
         opd       == clean_opd_detail(data["op_detail_df"])
         opdis     == clean_op_discharge_df(data["op_discharge_df"])
         agents    == clean_marketing_agent_df(data["marketing_agent_df"])
         deposit   == clean_op_deposit(data["op_deposit_df"])
     IN  IF \/ data["code_master_df"].state = "None"
            \/ data["code_master_df"].rows = <<>>
            \/ detail.raised \/ admission.raised \/ discharge.raised \/ patient.raised
            \/ doctor.raised \/ code.raised \/ mapping.raised
            \/ opd.raised \/ opdis.raised \/ agents.raised \/ deposit.raised
         THEN /\ MergeRaise
              /\ UNCHANGED <<admission_df, discharge_df, ip_detail_df, lookups>>
         ELSE /\ admission_df' = admission.rows
              /\ discharge_df' = discharge.rows
              /\ ip_detail_df' = detail.rows
              /\ lookups' = [patient_details_df |-> patient.rows,
                             doctor_master_df   |-> doctor.rows,
                             code_master_df     |-> code.rows,
                             tpa_mapping_df     |-> mapping.rows,
                             opd_detail_df      |-> opd.rows,
                             op_discharge_df    |-> opdis.rows]
              /\ ip_merge_df' = <<>>
              /\ merge_pc' = "discharge"
  /\ UNCHANGED <<data, ip_detail_agg, op_merge_df, notMerge>>

\* Lines 57-70: admissions left-joined with their discharge (one_to_one),
\* then with the patient's details (many_to_one).
MergeDischarge ==
  /\ merge_pc = "discharge"
  /\ LET joined == LeftJoin(admission_df, "ip_no", discharge_df, "ip_no",
                            DischargeBlankFor(discharge_df))
         patient == Project(lookups["patient_details_df"], {"ptn_no", "Age", "sex"})
     IN  ip_merge_df' = LeftJoin(joined, "ptn_no", patient, "ptn_no", PatientBlank)
  /\ merge_pc' = "detail"
  /\ UNCHANGED <<data, admission_df, discharge_df, ip_detail_df, lookups, ip_detail_agg,
                 op_merge_df, notMerge>>

\* merge() with a column named Group on both sides: the two are suffixed
\* _x and _y and no column is named Group.
WithGroup(row, group) ==
  IF "Group" \in DOMAIN row
  THEN [c \in (DOMAIN row \ {"Group"}) \cup {"Group_x", "Group_y"} |->
          CASE c = "Group_x" -> row["Group"]
            [] c = "Group_y" -> group
            [] OTHER -> row[c]]
  ELSE row @@ [Group |-> group]

\* Lines 72-90: the charge lines aggregated per admission number, joined
\* (one_to_one), and the Group of the first service description looked up
\* (many_to_one: a code master with a repeated key is a MergeError).
MergeDetail ==
  /\ merge_pc = "detail"
  /\ ip_detail_agg' = GroupByIpNo(ip_detail_df)
  /\ LET joined == LeftJoin(ip_merge_df, "ip_no", ip_detail_agg', "ip_no", DetailBlank)
     IN  IF ~KeysUnique(lookups["code_master_df"], "srv_desc_mapping") THEN MergeRaise
         ELSE /\ ip_merge_df' =
                   [i \in 1..Len(joined) |->
                      WithGroup(joined[i],
                                Lookup(lookups["code_master_df"], "srv_desc_mapping",
                                       joined[i]["srv_desc_mapping"], "Group", NA))]
              /\ merge_pc' = "doctors"
  /\ UNCHANGED <<data, admission_df, discharge_df, ip_detail_df, lookups, op_merge_df,
                 notMerge>>

\* Lines 92-111: the consultant's and the referrer's speciality.
MergeDoctors ==
  /\ merge_pc = "doctors"
  /\ ip_merge_df' =
       [i \in 1..Len(ip_merge_df) |->
          ip_merge_df[i] @@
          [consultant_specialty |->
             Lookup(lookups["doctor_master_df"], "Doctor Mapping",
                    ip_merge_df[i]["Doctor Mapping"], "SPECIALITY", NA),
           referral_specialty |->
             Lookup(lookups["doctor_master_df"], "Doctor Mapping",
                    ip_merge_df[i]["Doctor_Mapping_referral"], "SPECIALITY", NA)]]
  /\ merge_pc' = "tpa"
  /\ UNCHANGED <<data, admission_df, discharge_df, ip_detail_df, lookups, ip_detail_agg,
                 op_merge_df, notMerge>>

\* fillna: a missing credit company is taken from the TPA sheet.
WithCreditCompany(row) ==
  LET company == IF isna(row["CREDIT COMPANY"]) THEN row["CREDIT_COMPANY_TPA"]
                 ELSE row["CREDIT COMPANY"]
  IN  [c \in (DOMAIN row \ {"CREDIT_COMPANY_TPA", "voucher_number"}) \cup {"company_mapping"} |->
         CASE c = "CREDIT COMPANY" -> company
           [] c = "company_mapping" -> clean_name(company)
           [] OTHER -> row[c]]

TypeOfCompanyBlank == [c \in {"Company", "Type of Company"} |-> NA]

\* Lines 113-135: the TPA sheet joined on ip_no = voucher_number
\* (many_to_one: a repeated voucher number is a MergeError; a sheet without
\* the columns a KeyError), the credit company, the TPA mapping.
MergeTpa ==
  /\ merge_pc = "tpa"
  /\ LET tpa == data["tpa_data_df"]
         tpa_merge_df ==
           [i \in 1..Len(tpa.rows) |->
              [c \in {"voucher_number", "Approved Amt", "Settlement Gross", "CREDIT_COMPANY_TPA"} |->
                 IF c = "CREDIT_COMPANY_TPA" THEN tpa.rows[i]["CREDIT COMPANY"]
                 ELSE tpa.rows[i][c]]]
         joined == LeftJoin(ip_merge_df, "ip_no", tpa_merge_df, "voucher_number", TpaBlank)
         named == [i \in 1..Len(joined) |-> WithCreditCompany(joined[i])]
     IN  IF SelectRaises(tpa) \/ ~KeysUnique(tpa.rows, "voucher_number")
         THEN MergeRaise
         ELSE /\ ip_merge_df' = LeftJoin(named, "company_mapping", lookups["tpa_mapping_df"],
                                         "company_mapping", TypeOfCompanyBlank)
              /\ merge_pc' = "revenue"
  /\ UNCHANGED <<data, admission_df, discharge_df, ip_detail_df, lookups, ip_detail_agg,
                 op_merge_df, notMerge>>

\* Lines 138-147: revenue per row, missing amt and revenue made 0, the
\* line revenue.
WithRevenue(rows) ==
  LET filled == [i \in 1..Len(rows) |->
                   [c \in DOMAIN rows[i] \cup {"revenue"} |->
                      CASE c = "revenue" -> FillZero(compute_revenue(rows[i]))
                        [] c = "amt" -> FillZero(rows[i]["amt"])
                        [] OTHER -> rows[i][c]]]
  IN  [i \in 1..Len(filled) |->
         filled[i] @@ [line_revenue |->
                         line_revenue(filled[i]["amt"].v, TotalAmt(filled, filled[i]["ip_no"]),
                                      filled[i]["revenue"].v)]]

MergeRevenue ==
  /\ merge_pc = "revenue"
  /\ ip_merge_df' = WithRevenue(ip_merge_df)
  /\ merge_pc' = "dedup"
  /\ UNCHANGED <<data, admission_df, discharge_df, ip_detail_df, lookups, ip_detail_agg,
                 op_merge_df, notMerge>>

\* Lines 153-159: of the rows with one ip_no the first is kept.
MergeDedup ==
  /\ merge_pc = "dedup"
  /\ ip_merge_df' = IF KeysUnique(ip_merge_df, "ip_no") THEN ip_merge_df
                    ELSE DropDuplicatesFirst(ip_merge_df, "ip_no", {})
  /\ merge_pc' = "expired"
  /\ UNCHANGED <<data, admission_df, discharge_df, ip_detail_df, lookups, ip_detail_agg,
                 op_merge_df, notMerge>>

\* The admission number trimmed only.
normalise_ip_no_StripOnly(x) == Strip(AsStr(x))

\* astype(str).str.strip(), then the characters outside ASCII removed.
normalise_ip_no(x) == RemoveNonAscii(Strip(AsStr(x)))

WithIpNo(row, ip) == [c \in DOMAIN row |-> IF c = "ip_no" THEN ip ELSE row[c]]

\* Lines 161-181: with an expired-patient list, its ip_no and the fact
\* table's ip_no are normalised and the list is joined (many_to_one);
\* without one every row is 'no'.  None has no attribute `empty`.
MergeExpired ==
  /\ merge_pc = "expired"
  /\ LET expired_df == data["expired_pt"]
         expired_data ==
           DropDuplicatesFirst(
             [i \in 1..Len(expired_df.rows) |->
                [ip_no |-> normalise_ip_no(expired_df.rows[i]["ip_no"]),
                 patient_expired |-> <<"y", "e", "s">>]], "ip_no", {})
         normalised == [i \in 1..Len(ip_merge_df) |->
                          WithIpNo(ip_merge_df[i], normalise_ip_no(ip_merge_df[i]["ip_no"]))]
         no == [patient_expired |-> <<"n", "o">>]
     IN  IF expired_df.state = "None" THEN MergeRaise
         ELSE IF expired_df.rows = <<>>
         THEN /\ ip_merge_df' = [i \in 1..Len(ip_merge_df) |-> ip_merge_df[i] @@ no]
              /\ merge_pc' = "finish"
         ELSE IF expired_df.state # "ok" THEN MergeRaise
         ELSE /\ ip_merge_df' = LeftJoin(normalised, "ip_no", expired_data, "ip_no", no)
              /\ merge_pc' = "finish"
  /\ UNCHANGED <<data, admission_df, discharge_df, ip_detail_df, lookups, ip_detail_agg,
                 op_merge_df, notMerge>>

\* left.merge(right, how='left') without validation: a left row once per
\* matching right row, once with `blank` when there is none.
RECURSIVE LeftJoinMany(_, _, _, _)
LeftJoinMany(left, key, right, blank) ==
  IF left = <<>> THEN <<>>
  ELSE LET row == Head(left)
           SameKey(r) == r[key] = row[key]
           matches == SelectSeq(right, SameKey)
           joined == IF matches = <<>> THEN <<row @@ blank>>
                     ELSE [j \in 1..Len(matches) |-> row @@ matches[j]]
       IN  joined \o LeftJoinMany(Tail(left), key, right, blank)

OpdBlank ==
  [c \in {"DoctorFullName", "NetAmt", "Doctor Mapping"} |-> IF c = "NetAmt" THEN NaN ELSE NA]

\* Lines 196-205: the OP fact table, the OP discharges with their detail
\* lines and the patient's details.
op_merge(op_discharge, opd_detail, patients) ==
  LET detail == Project(opd_detail, {"vch_no", "DoctorFullName", "NetAmt", "Doctor Mapping"})
      joined == LeftJoinMany(op_discharge, "vch_no", detail, OpdBlank)
  IN  LeftJoin(joined, "ptn_no", Project(patients, {"ptn_no", "Age", "sex"}), "ptn_no",
               PatientBlank)

\* Lines 184-193: a required column the table lacks is added, with
\* 'UNKNOWN' for four of them and 0 for the others.
required_columns ==
  {"ip_no", "ptn_no", "dis_year", "dis_month_name", "line_revenue", "DocName", "refname",
   "patient_expired", "consultant_specialty", "Group", "referral_specialty",
   "CREDIT COMPANY", "TPA/CORPORATE"}

UnknownColumns == {"consultant_specialty", "Group", "referral_specialty", "TPA/CORPORATE"}

Unknown == <<"U", "N", "K", "N", "O", "W", "N">>

\* A backfill that leaves the added column missing.
Backfilled_Missing(row) == row @@ [c \in required_columns \ DOMAIN row |-> NA]

Backfilled(row) ==
  row @@ [c \in required_columns \ DOMAIN row |->
            IF c \in UnknownColumns THEN Unknown ELSE Num(0)]

\* Lines 181-208: TPA/CORPORATE copied from the mapping's Type of Company;
\* the OP fact table; both tables are returned.
MergeFinish ==
  /\ merge_pc = "finish"
  /\ ip_merge_df' = [i \in 1..Len(ip_merge_df) |->
                       Backfilled(ip_merge_df[i] @@
                                  ("TPA/CORPORATE" :> ip_merge_df[i]["Type of Company"]))]
  /\ op_merge_df' = op_merge(lookups["op_discharge_df"], lookups["opd_detail_df"],
                             lookups["patient_details_df"])
  /\ merge_pc' = "returned"
  /\ UNCHANGED <<data, admission_df, discharge_df, ip_detail_df, lookups, ip_detail_agg,
                 notMerge>>

merge_data ==
  \/ MergeLoad
  \/ MergeClean
  \/ MergeDischarge
  \/ MergeDetail
  \/ MergeDoctors
  \/ MergeTpa
  \/ MergeRevenue
  \/ MergeDedup
  \/ MergeExpired
  \/ MergeFinish

\* ---- the sources merge_data is run on
IpA == <<"A">>

IpB == <<"B">>

RawIpNos == {IpA, IpB, <<"A", "é">>, <<" ", "A">>}

AdmissionRows == {[ip_no |-> ip, Textbox73 |-> d] : ip \in RawIpNos, d \in {DmyCell(1), BadDateCell}}

CreditCell(name) == [colon |-> TRUE, name |-> name]

DischargeRow(ip, bill, stlmt) ==
  [ip_no |-> ip, Ptn_No |-> <<"P">>, cse_typ_dcd |-> <<"c">>, DocName |-> <<"D", "r", " ", "x">>,
   refname |-> NA, Textbox142 |-> CreditCell(<<" ", "s">>), dschg_dt |-> DmyCell(2),
   BillAmt |-> bill, stlmt_amt |-> stlmt, DepBalAmt |-> StrCell(0)]

LineRow(ip, amt) == [ip_no |-> ip, amt |-> amt, srv_desc |-> <<"x">>]

TpaRow(ip, approved) ==
  [c \in {"voucher_number", "Approved Amt", "Settlement Gross", "CREDIT COMPANY"} |->
     CASE c = "voucher_number" -> ip
       [] c = "Approved Amt" -> approved
       [] c = "Settlement Gross" -> StrCell(0)
       [] OTHER -> <<"s">>]

\* The reference tables and the patient register.
Patients ==
  Table(<<[ptn_no |-> <<"P">>, crt_dt |-> DmyCell(1), Age |-> StrCell(4), sex |-> <<"M">>]>>)

DoctorMaster ==
  Table(<<[c \in {"DOCTOR NAME", "SPECIALITY"} |->
             IF c = "SPECIALITY" THEN <<"s">> ELSE <<"x">>]>>)

CodeMaster == Table(<<[c \in {"srv_desc", "Group"} |-> IF c = "Group" THEN <<"r">> ELSE <<"x">>]>>)

TpaMapping ==
  Table(<<[c \in {"Company", "Type of Company"} |->
             IF c = "Company" THEN <<"s">> ELSE <<"M">>]>>)

\* The OP sources: a voucher of patient P with one detail line, a deposit.
OpDetail ==
  Table(<<[vch_no |-> <<"s">>, vch_dt |-> DmyCell(1), DoctorFullName |-> <<"D", "r", " ", "x">>,
           UNITS1 |-> StrCell(1), NetAmt |-> StrCell(1)]>>)

OpDischarge ==
  Table(<<[vch_no |-> <<"s">>, ptn_no |-> <<"P">>, rev_dt1 |-> DmyCell(1),
           Textbox88 |-> <<"s">>]>>)

OpDeposit(amount) ==
  Table(<<[rev_dt |-> DmyCell(1), Textbox53 |-> <<"P">>, dep_typ_dcd1 |-> <<"x">>,
           Dep_Amt |-> amount, Textbox29 |-> StrCell(0)]>>)

MarketingAgents == Table(<<[c \in {"Marketing Agents"} |-> <<"M", "r", " ", "x">>]>>)

Sources(admissions, discharge, detail, tpa, expired) ==
  [admission_list    |-> admissions,
   ip_discharge_df   |-> discharge,
   ip_detail_df      |-> detail,
   patient_detail_df |-> Patients,
   doctor_master_df  |-> DoctorMaster,
   code_master_df    |-> CodeMaster,
   tpa_mapping_df    |-> TpaMapping,
   tpa_data_df       |-> tpa,
   expired_pt        |-> expired,
   op_detail_df      |-> OpDetail,
   op_discharge_df   |-> OpDischarge,
   op_deposit_df     |-> OpDeposit(StrCell(1)),
   marketing_agent_df |-> MarketingAgents]

\* Admission lists of every shape against expired-patient lists of every
\* kind, around one admission billed 5 units with charge lines of 3 and 2.
ExpiredLists ==
  {NoneTable, Table(<<>>), Table(<<[ip_no |-> IpA]>>),
   Table(<<[ip_no |-> IpA], [ip_no |-> <<"A", " ">>]>>), BadColumns(<<[ip_no |-> IpA]>>)}

AdmissionSources ==
  {Sources(adm, Table(<<DischargeRow(IpA, StrCell(5 * Scale), StrCell(0))>>),
           Table(<<LineRow(IpA, StrCell(3 * Scale)), LineRow(IpA, StrCell(2 * Scale))>>),
           Table(<<>>), exp) :
     adm \in {Table(rows) : rows \in SeqsUpTo(AdmissionRows, MaxAdm)} \cup {NoneTable},
     exp \in ExpiredLists}

\* Admissions A and B, both discharged, against amounts of every kind: A's
\* bill and settlement, an approved amount on the TPA sheet, the charge
\* lines.
RawAmounts == {StrCell(n) : n \in 0..MaxAmt} \cup {TextCell, ParenCell(1)}

LineAmounts == {StrCell(n) : n \in 1..MaxAmt} \cup {TextCell}

LineRows == {LineRow(ip, amt) : ip \in {IpA, IpB}, amt \in LineAmounts}

TwoAdmissions ==
  Table(<<[ip_no |-> IpA, Textbox73 |-> DmyCell(1)], [ip_no |-> IpB, Textbox73 |-> DmyCell(1)]>>)

AmountSources ==
  {Sources(TwoAdmissions,
           Table(<<DischargeRow(IpA, bill, stlmt), DischargeRow(IpB, StrCell(1), StrCell(0))>>),
           Table(lines), tpa, Table(<<>>)) :
     bill \in RawAmounts, stlmt \in {StrCell(0), StrCell(1)},
     lines \in SeqsUpTo(LineRows, MaxLines),
     tpa \in {Table(<<>>), Table(<<TpaRow(IpA, StrCell(1))>>)}}

\* One admission with everything in place, and the same with one source at
\* fault: a folder without CSV files (None), a table lacking its columns,
\* an empty code master, a sheet that is empty (read_sheet_to_df returns a
\* DataFrame without columns) or whose fetch fails.
GoodSources ==
  Sources(Table(<<[ip_no |-> IpA, Textbox73 |-> DmyCell(1)]>>),
          Table(<<DischargeRow(IpA, StrCell(5 * Scale), StrCell(0))>>),
          Table(<<LineRow(IpA, StrCell(1))>>),
          Table(<<TpaRow(IpA, StrCell(1))>>),
          Table(<<[ip_no |-> IpA]>>))

FolderSources ==
  {"ip_detail_df", "ip_discharge_df", "op_detail_df", "op_discharge_df", "patient_detail_df",
   "op_deposit_df", "expired_pt", "admission_list"}

ReferenceFiles == {"doctor_master_df", "code_master_df", "marketing_agent_df", "tpa_mapping_df"}

FetchFailedSheet == [state |-> "fetch failed", rows |-> <<>>]

EmptySheet == BadColumns(<<>>)

SourceFaults ==
  {[GoodSources EXCEPT ![k] = NoneTable] : k \in FolderSources}
  \cup {[GoodSources EXCEPT ![k] = BadColumns(GoodSources[k].rows)] :
          k \in FolderSources \cup ReferenceFiles}
  \cup {[GoodSources EXCEPT !["code_master_df"] = Table(<<>>)]}

SheetFaults ==
  {[GoodSources EXCEPT !["tpa_data_df"] = sheet] : sheet \in {FetchFailedSheet, EmptySheet}}

FaultSources == {GoodSources} \cup SourceFaults \cup SheetFaults

\* Sources sound but for a deposit amount: a number, a number with commas,
\* a missing value, a bracketed number, a text that is no number.
DepositAmounts == {StrCell(1), CommaCell(1), NaN, ParenCell(1), TextCell}

DepositSources ==
  {[GoodSources EXCEPT !["op_deposit_df"] = OpDeposit(amount)] : amount \in DepositAmounts}

\* Admissions A and B against discharge registers of up to MaxAdm rows, each
\* row of A or B, dated the first day, the second, or with a text that is no
\* date.
DischargeDates == {DmyCell(1), DmyCell(2), BadDateCell}

DatedDischargeRows ==
  {[DischargeRow(ip, StrCell(1), StrCell(0)) EXCEPT !["dschg_dt"] = d] :
     ip \in {IpA, IpB}, d \in DischargeDates}

DischargeSources ==
  {[GoodSources EXCEPT !["admission_list"] = TwoAdmissions,
                       !["ip_discharge_df"] = Table(rows)] :
     rows \in SeqsUpTo(DatedDischargeRows, MaxAdm) \ {<<>>}}

\* Patient registers of up to MaxAdm rows: patients P (also written with a
\* leading blank) and Q, created the first day, the second, or with a text
\* that is no date.
PatientRows ==
  {[ptn_no |-> p, crt_dt |-> d, Age |-> StrCell(4), sex |-> <<"M">>] :
     p \in {<<"P">>, <<" ", "P">>, <<"Q">>}, d \in DischargeDates}

PatientSources ==
  {[GoodSources EXCEPT !["patient_detail_df"] = Table(rows)] :
     rows \in SeqsUpTo(PatientRows, MaxAdm) \ {<<>>}}

\* Code masters of up to MaxAdm rows: the service descriptions 'x', 'Dr',
\* 'D.r' and a missing one.
CodeMasterRows ==
  {[c \in {"srv_desc", "Group"} |-> IF c = "Group" THEN <<"r">> ELSE desc] :
     desc \in {<<"x">>, <<"D", "r">>, <<"D", ".", "r">>, NA}}

CodeMasterSources ==
  {[GoodSources EXCEPT !["code_master_df"] = Table(rows)] :
     rows \in SeqsUpTo(CodeMasterRows, MaxAdm) \ {<<>>}}

\* Admissions A and B; B discharged with a company name; A not discharged,
\* or discharged with a company name, with a text without a colon, or with
\* nothing after the colon; the TPA sheet without a row, or with a row that
\* names a company for A.
CreditCells == {CreditCell(<<" ", "s">>), CreditCell(<<" ">>), [colon |-> FALSE, name |-> <<>>]}

CreditRegisters ==
  {<<DischargeRow(IpB, StrCell(1), StrCell(0))>>}
  \cup {<<[DischargeRow(IpA, StrCell(1), StrCell(0)) EXCEPT !["Textbox142"] = cell],
          DischargeRow(IpB, StrCell(1), StrCell(0))>> : cell \in CreditCells}

CreditSheets ==
  {<<>>, <<[TpaRow(IpA, StrCell(1)) EXCEPT !["CREDIT COMPANY"] = <<"x">>]>>}

CreditSources ==
  {[GoodSources EXCEPT !["admission_list"] = TwoAdmissions,
                       !["ip_discharge_df"] = Table(register),
                       !["tpa_data_df"] = Table(sheet)] :
     register \in CreditRegisters, sheet \in CreditSheets}

\* Admissions A and B against a register that has a Group column of its own
\* and a row for A.
GroupedRegister ==
  Table(<<DischargeRow(IpA, StrCell(1), StrCell(0)) @@ [Group |-> <<"s">>]>>)

GroupedSources ==
  {[GoodSources EXCEPT !["admission_list"] = TwoAdmissions,
                       !["ip_discharge_df"] = GroupedRegister]}

StartMerge ==
  /\ data \in AdmissionSources \cup AmountSources \cup FaultSources \cup DepositSources
              \cup DischargeSources \cup PatientSources \cup CodeMasterSources
              \cup CreditSources \cup GroupedSources
  /\ admission_df = <<>>
  /\ discharge_df = <<>>
  /\ ip_detail_df = <<>>
  /\ lookups = NoTables
  /\ ip_detail_agg = <<>>
  /\ ip_merge_df = <<>>
  /\ op_merge_df = <<>>
  /\ merge_pc = "load"

(***************************************************************************)
(* Hospital_dashboard.py: main, the session, the cache files, Refresh      *)
(* A table of the session or of a file is [by, origin, rows]: by is the    *)
(* number of the refresh that made it, 0 for a file of an earlier run.     *)
(***************************************************************************)
\* Lines 184-187: a new session holds no table.
NoData == [by |-> 0, origin |-> "None", rows |-> <<>>]

\* os.path.exists is false.
NoFile == [by |-> 0, origin |-> "absent", rows |-> <<>>]

\* The columns of the two fact tables that hold text.
CsvTextColumns ==
  {"ip_no", "ptn_no", "vch_no", "cse_typ_dcd", "DocName", "refname", "sex",
   "CREDIT COMPANY", "credit_company", "Doctor Mapping", "Doctor_Mapping_referral",
   "consultant_specialty", "referral_specialty", "service_description",
   "srv_desc_mapping", "Group", "company_mapping", "Company", "Type of Company",
   "TPA/CORPORATE", "patient_expired", "DoctorFullName"}

\* The texts pandas.read_csv reads as missing by default.
CsvNaTexts == {<<>>, <<"n", "a", "n">>, <<"N", "A">>, NA}

\* to_csv then read_csv of one text cell: a missing value is written as the
\* empty field, and an empty or NA-like field is read back as missing.
csv_text(cell) == IF cell \in CsvNaTexts THEN NA ELSE cell

csv_rows(rows) ==
  [i \in 1..Len(rows) |->
     [c \in DOMAIN rows[i] |->
        IF c \in CsvTextColumns THEN csv_text(rows[i][c]) ELSE rows[i][c]]]

\* Lines 207-208, DataFrame.to_csv(index=False).
to_csv(table) == [by |-> table.by, origin |-> "to_csv", rows |-> csv_rows(table.rows)]

\* Lines 191, 193, pd.read_csv of a cache file.
read_csv(file) == [by |-> file.by, origin |-> "read_csv", rows |-> file.rows]

\* Lines 190-193: a cache file is read only when the session holds no table
\* and the file exists.
LoadSaved(table, file) ==
  IF table = NoData /\ file # NoFile THEN read_csv(file) ELSE table

\* Files an earlier run of the dashboard left behind.
SavedIp == [by |-> 0, origin |-> "to_csv", rows |-> <<[ip_no |-> IpA], [ip_no |-> IpB]>>]

SavedOp == [by |-> 0, origin |-> "to_csv", rows |-> <<[vch_no |-> IpA]>>]

SavedFiles == {<<NoFile, NoFile>>, <<SavedIp, SavedOp>>}

IdleApp ==
  /\ session_ip_data = NoData
  /\ session_op_data = NoData
  /\ ip_data_csv = NoFile
  /\ op_data_csv = NoFile
  /\ app_pc = "off"
  /\ message = "none"
  /\ refresh_no = 0
  /\ before_refresh = <<>>
  /\ last_success = 0
  /\ at_start = <<>>

\* The first run of main in a new session, on the files there are.
StartApp ==
  /\ \E files \in SavedFiles :
       /\ ip_data_csv = files[1]
       /\ op_data_csv = files[2]
  /\ session_ip_data = LoadSaved(NoData, ip_data_csv)
  /\ session_op_data = LoadSaved(NoData, op_data_csv)
  /\ app_pc = "idle"
  /\ message = "none"
  /\ refresh_no = 0
  /\ before_refresh = <<>>
  /\ last_success = 0
  /\ at_start = <<session_ip_data, session_op_data>>

\* The sources a refresh may find.
RefreshSources == FaultSources

\* The handler has returned: the locals of merge_data are gone.
HandlerReturns ==
  /\ data' = NoTables
  /\ admission_df' = <<>>
  /\ discharge_df' = <<>>
  /\ ip_detail_df' = <<>>
  /\ lookups' = NoTables
  /\ ip_detail_agg' = <<>>
  /\ ip_merge_df' = <<>>
  /\ op_merge_df' = <<>>
  /\ merge_pc' = "idle"

\* Lines 183-193: the application is started again: a new session, which
\* reads the cache files there are.
AppStart ==
  /\ app_pc = "idle"
  /\ session_ip_data' = LoadSaved(NoData, ip_data_csv)
  /\ session_op_data' = LoadSaved(NoData, op_data_csv)
  /\ at_start' = <<session_ip_data', session_op_data'>>
  /\ last_success' = 0
  /\ message' = "none"
  /\ before_refresh' = <<>>
  /\ UNCHANGED <<ip_data_csv, op_data_csv, app_pc, refresh_no, mergeVars, notApp>>

\* Lines 183-204: the Refresh button reruns main: the saved data is loaded
\* where the session holds none, then merge_data is called.
RefreshClick ==
  /\ app_pc = "idle"
  /\ refresh_no < MaxRefresh
  /\ refresh_no' = refresh_no + 1
  /\ session_ip_data' = LoadSaved(session_ip_data, ip_data_csv)
  /\ session_op_data' = LoadSaved(session_op_data, op_data_csv)
  /\ before_refresh' = <<session_ip_data', session_op_data', ip_data_csv, op_data_csv>>
  /\ data' \in RefreshSources
  /\ admission_df' = <<>>
  /\ discharge_df' = <<>>
  /\ ip_detail_df' = <<>>
  /\ lookups' = NoTables
  /\ ip_detail_agg' = <<>>
  /\ ip_merge_df' = <<>>
  /\ op_merge_df' = <<>>
  /\ merge_pc' = "load"
  /\ app_pc' = "merging"
  /\ message' = "none"
  /\ UNCHANGED <<ip_data_csv, op_data_csv, last_success, at_start, notApp>>

\* Lines 205-206: the returned tables are put in the session.
RefreshStore ==
  /\ app_pc = "merging"
  /\ merge_pc = "returned"
  /\ session_ip_data' = [by |-> refresh_no, origin |-> "merge_data", rows |-> ip_merge_df]
  /\ session_op_data' = [by |-> refresh_no, origin |-> "merge_data", rows |-> op_merge_df]
  /\ app_pc' = "write ip"
  /\ UNCHANGED <<ip_data_csv, op_data_csv, message, refresh_no, before_refresh,
                 last_success, at_start, mergeVars, notApp>>

\* Line 207: ip_data.csv is written.
WriteIp ==
  /\ app_pc = "write ip"
  /\ ip_data_csv' = to_csv(session_ip_data)
  /\ app_pc' = "write op"
  /\ UNCHANGED <<session_ip_data, session_op_data, op_data_csv, message, refresh_no,
                 before_refresh, last_success, at_start, mergeVars, notApp>>

\* Lines 208-209: op_data.csv is written and success is shown.
WriteOp ==
  /\ app_pc = "write op"
  /\ op_data_csv' = to_csv(session_op_data)
  /\ message' = "success"
  /\ last_success' = refresh_no
  /\ app_pc' = "idle"
  /\ UNCHANGED <<session_ip_data, session_op_data, ip_data_csv, refresh_no,
                 before_refresh, at_start, notApp>>
  /\ HandlerReturns

\* Lines 204, 213-214: merge_data raised: the except clause shows the error.
RefreshFailed ==
  /\ app_pc = "merging"
  /\ merge_pc = "raised"
  /\ message' = "error: merge_data raised"
  /\ app_pc' = "idle"
  /\ UNCHANGED <<session_ip_data, session_op_data, ip_data_csv, op_data_csv, refresh_no,
                 before_refresh, last_success, at_start, notApp>>
  /\ HandlerReturns

\* Lines 207-208, 213-214: to_csv raises OSError (the file is open in
\* another program, the disk is full): the file is left as it was and the
\* except clause shows the error.
WriteFailed ==
  /\ app_pc \in {"write ip", "write op"}
  /\ message' = "error: to_csv raised"
  /\ app_pc' = "idle"
  /\ UNCHANGED <<session_ip_data, session_op_data, ip_data_csv, op_data_csv, refresh_no,
                 before_refresh, last_success, at_start, notApp>>
  /\ HandlerReturns

main ==
  \/ AppStart
  \/ RefreshClick
  \/ merge_data
  \/ RefreshStore
  \/ WriteIp
  \/ WriteOp
  \/ RefreshFailed
  \/ WriteFailed

(***************************************************************************)
(* Hospital_dashboard.py, dashboard/filters.py: the prior-period window.   *)
(* A date is the number of its day; the calendar is the one of             *)
(* MonthLengths.                                                           *)
(***************************************************************************)
MaxYear == 2

DayNumber(year, month, day) == year * DaysPerYear + SumTo(MonthLengths, month - 1) + day - 1

Smaller(a, b) == IF a <= b THEN a ELSE b

Larger(a, b) == IF a >= b THEN a ELSE b

\* date - relativedelta(months=n): the same day of the month n months
\* earlier, or that month's last day when it has no such day.
minus_months(d, n) ==
  LET k     == YearOfDay(d) * Len(MonthLengths) + (MonthOfDay(d) - 1) - n
      year  == k \div Len(MonthLengths)
      month == (k % Len(MonthLengths)) + 1
  IN  DayNumber(year, month, Smaller(DayOfMonth(d), MonthLengths[month]))

\* date.replace(day=1)
replace_day_1(d) == d - DayOfMonth(d) + 1

\* The window compared with [start_date, end_date]: it ends one month before
\* end_date, reaches back date_span - 1 days, and never leaves the month of
\* its end.
prev_period(start_date, end_date) ==
  LET date_span       == (end_date - start_date) + 1
      prev_end_date   == minus_months(end_date, 1)
      prev_start_date == prev_end_date - (date_span - 1)
  IN  [start |-> Larger(prev_start_date, replace_day_1(prev_end_date)),
       end   |-> prev_end_date]

\* st.date_input returns a range whose start is not after its end.
SelectableDays == DaysPerYear .. ((MaxYear + 1) * DaysPerYear - 1)

NoPeriod == [start |-> 0, end |-> 0]

IdlePeriod ==
  /\ per_start = 0
  /\ per_end = 0
  /\ per_prev = NoPeriod
  /\ per_pc = "idle"

StartPeriod ==
  /\ per_start \in SelectableDays
  /\ per_end \in SelectableDays
  /\ per_start <= per_end
  /\ per_prev = NoPeriod
  /\ per_pc = "call"

CallPrevPeriod ==
  /\ per_pc = "call"
  /\ per_prev' = prev_period(per_start, per_end)
  /\ per_pc' = "done"
  /\ UNCHANGED <<per_start, per_end, notPer>>

(***************************************************************************)
(* Hospital_dashboard.py: the NABL age-wise report                         *)
(***************************************************************************)
IdleReport ==
  /\ rpt_df = <<>>
  /\ rpt_month = 0
  /\ rpt_year = 0
  /\ rpt_summary = <<>>
  /\ rpt_pc = "idle"

\* Fact tables of the report specification hold at most MaxPatients rows.
MaxPatients == 2

AgeBands == <<"Less than 18 years", "Less than 65 years", "Greater than equal 65 years">>

Male == <<"M", "a", "l", "e">>

Female == <<"F", "e", "m", "a", "l", "e">>

UnknownSex == <<"U", "n", "k", "n", "o", "w", "n">>

\* str.title() of one word: its first letter upper case, the others lower
\* case, on the letters used.
title_upper(c) == CASE c = "m" -> "M" [] c = "f" -> "F" [] c = "u" -> "U" [] OTHER -> c

title_lower(c) ==
  CASE c = "A" -> "a" [] c = "E" -> "e" [] c = "L" -> "l" [] c = "M" -> "m"
    [] c = "F" -> "f" [] OTHER -> c

str_title(s) == [k \in 1..Len(s) |-> IF k = 1 THEN title_upper(s[k]) ELSE title_lower(s[k])]

\* df[(df["month"] == month) & (df["year"] == year)], then, for the death
\* report, the rows whose patient_expired reads "yes" in any letter case.
ReportSelection(df, date_col, month, year, expired_filter) ==
  LET InMonth(row) == /\ dt_month(row[date_col]) = Num(month)
                      /\ dt_year(row[date_col]) = Num(year)
      Expired(row) == LowerText(row["patient_expired"]) = <<"y", "e", "s">>
      of_month     == SelectSeq(df.rows, InMonth)
  IN  IF expired_filter = "Yes" THEN SelectSeq(of_month, Expired) ELSE of_month

\* df["sex"].fillna("Unknown").str.title()
SexOf(row) == str_title(IF isna(row["sex"]) THEN UnknownSex ELSE row["sex"])

\* groupby(["Age Group", "Sex"]).size(): the number of rows of a band and sex.
GroupSize(rows, band, sex) ==
  Cardinality({i \in 1..Len(rows) : get_age_group(rows[i]["Age"]) = band /\ SexOf(rows[i]) = sex})

\* summary.sum(axis=1): a band's counts added over all the columns the
\* unstacked table has, one for each sex among the rows.
RECURSIVE SumColumns(_, _, _)
SumColumns(rows, band, sexes) ==
  IF sexes = {} THEN 0
  ELSE LET sex == CHOOSE s \in sexes : TRUE
       IN  GroupSize(rows, band, sex) + SumColumns(rows, band, sexes \ {sex})

RECURSIVE ColumnSum(_, _, _)
ColumnSum(summary, column, n) ==
  IF n = 0 THEN 0 ELSE summary[AgeBands[n]][column] + ColumnSum(summary, column, n - 1)

\* fillna leaves a column with no row as it is: a float64 column stays one,
\* and .str raises AttributeError on it.
SexAccessorRaises(df, rows) == rows = <<>> /\ ColumnDtype(df, "sex") = "float64"

generate_agewise_report(df, date_col, month, year, expired_filter) ==
  LET rows    == ReportSelection(df, date_col, month, year, expired_filter)
      sexes   == {SexOf(rows[i]) : i \in 1..Len(rows)}
      summary == [band \in {AgeBands[n] : n \in 1..Len(AgeBands)} |->
                    [Male   |-> IF Male \in sexes THEN GroupSize(rows, band, Male) ELSE 0,
                     Female |-> IF Female \in sexes THEN GroupSize(rows, band, Female) ELSE 0,
                     Total  |-> SumColumns(rows, band, sexes)]]
      total_row == [column \in {"Male", "Female", "Total"} |->
                      ColumnSum(summary, column, Len(AgeBands))]
  IN  IF SexAccessorRaises(df, rows) THEN [status |-> "AttributeError", table |-> <<>>]
      ELSE [status |-> "returned",
            table |-> [label \in DOMAIN summary \cup {"Total"} |->
                         IF label = "Total" THEN total_row ELSE summary[label]]]

\* ---- the report specification: a fact table of the session, a month and
\* a year chosen in the NABL tab, and one of its three reports
ReportAges == {[kind |-> "nan", v |-> 0]}
                \cup {[kind |-> "num", v |-> years * AgeUnit] : years \in {10, 30, MaxAge}}

ReportDates == {NaT, to_datetime_date(DaysPerYear), to_datetime_date(DaysPerYear + MonthLengths[1])}

ReportRows ==
  {[dschg_dt |-> d, Age |-> a, sex |-> s, patient_expired |-> e] :
     d \in ReportDates, a \in ReportAges,
     s \in {<<"M", "A", "L", "E">>, Female, NA},
     e \in {<<"y", "e", "s">>, <<"n", "o">>}}

StartReport ==
  /\ rpt_df \in {[origin |-> o, rows |-> rs] :
                   o \in {"merge_data", "read_csv"}, rs \in SeqsUpTo(ReportRows, MaxPatients)}
  /\ rpt_month \in 1..2
  /\ rpt_year = 1
  /\ rpt_summary = <<>>
  /\ rpt_pc \in {"discharges", "deaths"}

\* dsch_report and death_report of the NABL tab.
CallReport ==
  /\ rpt_pc \in {"discharges", "deaths"}
  /\ rpt_summary' = generate_agewise_report(rpt_df, "dschg_dt", rpt_month, rpt_year,
                                            IF rpt_pc = "deaths" THEN "Yes" ELSE "None")
  /\ rpt_pc' = IF rpt_pc = "deaths" THEN "deaths shown" ELSE "discharges shown"
  /\ UNCHANGED <<rpt_df, rpt_month, rpt_year, notRpt>>

(***************************************************************************)
(* dashboard/filters.py: ip_filter_ui; Hospital_dashboard.py: the IP        *)
(* Details tab                                                             *)
(***************************************************************************)
\* A multiselect of the filter UI holds at most MaxPicks options.
MaxPicks == 2

\* The multiselects in the order ip_filter_ui shows and applies them.
UiOrder ==
  << [arg |-> "consultant_specialty", col |-> "consultant_specialty"],
     [arg |-> "doc_name",             col |-> "DocName"],
     [arg |-> "referral_specialty",   col |-> "referral_specialty"],
     [arg |-> "ref_name",             col |-> "refname"],
     [arg |-> "group",                col |-> "Group"],
     [arg |-> "credit_company",       col |-> "CREDIT COMPANY"],
     [arg |-> "tpa_corporate",        col |-> "TPA/CORPORATE"],
     [arg |-> "patient_expired",      col |-> "patient_expired"],
     [arg |-> "case_type",            col |-> "cse_typ_dcd"] >>

UnknownOption == <<"U", "n", "k", "n", "o", "w", "n">>

NoValuesAvailable ==
  <<"N", "o", " ", "v", "a", "l", "u", "e", "s", " ", "a", "v", "a", "i", "l", "a", "b", "l", "e">>

\* safe_unique_list(df, col) or ["No values available"]: the options of a
\* multiselect (their order plays no part).
safe_unique_list(rows, col) ==
  {IF isna(rows[i][col]) THEN UnknownOption ELSE rows[i][col] : i \in 1..Len(rows)}

Options(rows, col) ==
  IF safe_unique_list(rows, col) = {} THEN {NoValuesAvailable} ELSE safe_unique_list(rows, col)

\* if selection and selection != ["No values available"]:
\*     df = df[df[col].isin(selection)]
\* isin compares the cells as they are; a missing cell is in no selection.
Selected(rows, col, selection) ==
  LET IsIn(row) == ~isna(row[col]) /\ \E k \in 1..Len(selection) : row[col] = selection[k]
  IN  IF selection # <<>> /\ selection # <<NoValuesAvailable>>
        THEN SelectSeq(rows, IsIn)
        ELSE rows

\* The current-period rows after the multiselects first..last.
RECURSIVE Cascade(_, _, _, _)
Cascade(rows, picks, first, last) ==
  IF first > last THEN rows
  ELSE Cascade(Selected(rows, UiOrder[first].col, picks[UiOrder[first].arg]),
               picks, first + 1, last)

NoPicks == [a \in CatArgs |-> <<>>]

\* What ip_filter_ui returns: the selections and the current-period table.
UiFilters(window, picks, rows) ==
  [date_filter |-> window, picks |-> picks, filtered_df |-> rows]

ip_filter_ui(df, window, picks) ==
  LET InWindow(row) == InDateWindow(row["dschg_dt"], window)
      filtered_df_current == IF DateFilterApplies(window)
                               THEN SelectSeq(df.rows, InWindow)
                               ELSE df.rows
  IN  IF filtered_df_current = <<>>
        THEN UiFilters(window, NoPicks, filtered_df_current)
        ELSE UiFilters(window, picks, Cascade(filtered_df_current, picks, 1, Len(UiOrder)))

\* filter_args of the IP Details tab: the selections as keyword arguments.
filter_args(filters) ==
  [k \in CatArgs \cup {"date_filter"} |->
     IF k = "date_filter" THEN filters.date_filter ELSE ListArg(filters.picks[k])]

\* ---- the filter UI specification: a table of the session, a date range,
\* selections in one multiselect and the one shown after it
UiTexts == {<<"r">>, <<"R">>}

UiTables(i) ==
  { [origin |-> o, rows |-> rs] :
      o \in {"merge_data", "read_csv"},
      rs \in SeqsUpTo({MkRow(UiOrder[i].col, v, d) :
                         v \in UiTexts \cup {NA}, d \in RowDates}, MaxRows) }

NoDuplicates(s) == \A j, k \in 1..Len(s) : s[j] = s[k] => j = k

Picks(options) == {s \in SeqsUpTo(options, MaxPicks) : NoDuplicates(s)}

\* Selections in multiselect i and in the one after it.
MkPicks(i, a, b) ==
  [k \in CatArgs |->
     IF k = UiOrder[i].arg THEN a ELSE IF k = UiOrder[i + 1].arg THEN b ELSE <<>>]

NoFilters == UiFilters([kind |-> "none", s |-> 0, e |-> 0], NoPicks, <<>>)

IdleUi ==
  /\ ui_table = NoTable
  /\ ui_date = [kind |-> "none", s |-> 0, e |-> 0]
  /\ ui_filters = NoFilters
  /\ ui_details = NoResult
  /\ ui_pc = "idle"

StartUi ==
  /\ \E i \in 1..Len(UiOrder) : ui_table \in UiTables(i)
  /\ ui_date \in DateFilters
  /\ ui_filters = NoFilters
  /\ ui_details = NoResult
  /\ ui_pc = "filter ui"

\* ip_filter_ui runs with the selections the user has made in it: each
\* multiselect holds options it offered, the unique values of its column
\* among the current-period rows the earlier multiselects left.
IpFilterUi ==
  /\ ui_pc = "filter ui"
  /\ \E i \in 1..(Len(UiOrder) - 1) :
       LET current == ip_filter_ui(ui_table, ui_date, NoPicks).filtered_df
       IN  \E a \in Picks(Options(current, UiOrder[i].col)) :
             \E b \in Picks(Options(Selected(current, UiOrder[i].col, a), UiOrder[i + 1].col)) :
               ui_filters' = ip_filter_ui(ui_table, ui_date, MkPicks(i, a, b))
  /\ ui_pc' = "filter_ip_data"
  /\ UNCHANGED <<ui_table, ui_date, ui_details, notUi>>

\* The IP Details tab: filter_ip_data(st.session_state.ip_data, **filter_args)
IpDetails ==
  /\ ui_pc = "filter_ip_data"
  /\ ui_details' = filter_ip_data(ui_table, filter_args(ui_filters))
  /\ ui_pc' = "shown"
  /\ UNCHANGED <<ui_table, ui_date, ui_filters, notUi>>

(***************************************************************************)
(* Specifications                                                          *)
(***************************************************************************)
InitName ==
  StartName /\ IdleAge /\ IdleRevenue /\ IdleTpa /\ IdleFilter /\ IdleMerge /\ IdleApp /\ IdlePeriod /\ IdleReport /\ IdleUi

NextName == CleanOnce \/ CleanTwice

SpecName == InitName /\ [][NextName]_vars

InitAge ==
  IdleName /\ StartAge /\ IdleRevenue /\ IdleTpa /\ IdleFilter /\ IdleMerge /\ IdleApp /\ IdlePeriod /\ IdleReport /\ IdleUi

NextAge == CallAgeGroup

SpecAge == InitAge /\ [][NextAge]_vars

InitRevenue ==
  IdleName /\ IdleAge /\ StartRevenue /\ IdleTpa /\ IdleFilter /\ IdleMerge /\ IdleApp /\ IdlePeriod /\ IdleReport /\ IdleUi

NextRevenue == CallComputeRevenue

SpecRevenue == InitRevenue /\ [][NextRevenue]_vars

InitTpa ==
  IdleName /\ IdleAge /\ IdleRevenue /\ StartTpa /\ IdleFilter /\ IdleMerge /\ IdleApp /\ IdlePeriod /\ IdleReport /\ IdleUi

\* The loop's steps always run to the function's return: nothing else runs.
SpecTpa == InitTpa /\ [][load_tpa_sheet]_vars /\ WF_vars(load_tpa_sheet)

InitFilter ==
  IdleName /\ IdleAge /\ IdleRevenue /\ IdleTpa /\ StartFilter /\ IdleMerge /\ IdleApp /\ IdlePeriod /\ IdleReport /\ IdleUi

NextFilter == CallFilter

SpecFilter == InitFilter /\ [][NextFilter]_vars

InitMerge ==
  StartMerge /\ IdleName /\ IdleAge /\ IdleRevenue /\ IdleTpa /\ IdleFilter /\ IdleApp /\ IdlePeriod /\ IdleReport /\ IdleUi

NextMerge == merge_data

SpecMerge == InitMerge /\ [][NextMerge]_vars

InitRefresh ==
  StartApp /\ IdleMerge /\ IdleName /\ IdleAge /\ IdleRevenue /\ IdleTpa /\ IdleFilter /\ IdlePeriod /\ IdleReport /\ IdleUi

NextRefresh == main

SpecRefresh == InitRefresh /\ [][NextRefresh]_vars

InitPeriod ==
  StartPeriod /\ IdleName /\ IdleAge /\ IdleRevenue /\ IdleTpa /\ IdleFilter /\ IdleMerge
  /\ IdleApp /\ IdleReport /\ IdleUi

NextPeriod == CallPrevPeriod

SpecPeriod == InitPeriod /\ [][NextPeriod]_vars

InitReport ==
  StartReport /\ IdleName /\ IdleAge /\ IdleRevenue /\ IdleTpa /\ IdleFilter /\ IdleMerge
  /\ IdleApp /\ IdlePeriod /\ IdleUi

NextReport == CallReport

SpecReport == InitReport /\ [][NextReport]_vars

InitUi ==
  StartUi /\ IdleName /\ IdleAge /\ IdleRevenue /\ IdleTpa /\ IdleFilter /\ IdleMerge
  /\ IdleApp /\ IdlePeriod /\ IdleReport

NextUi == IpFilterUi \/ IpDetails

SpecUi == InitUi /\ [][NextUi]_vars

(***************************************************************************)
(* Properties                                                              *)
(***************************************************************************)
AllNumbers(row) == \A k \in DOMAIN row : row[k].k = "num"

\* C2: for every combination of the five amounts compute_revenue returns the
\* settlement amount if it is > 0, else Settlement Gross + deposit balance if
\* Settlement Gross > 0, else Approved Amt + deposit balance if Approved Amt
\* > 0, else the bill amount: a function of the five amounts alone.
C2_RevenuePriority ==
  (rev_pc = "returned" /\ AllNumbers(rev_row)) =>
    LET s == rev_row["stlmt_amt"].v
        g == rev_row["Settlement Gross"].v
        d == rev_row["DepBalAmt"].v
        a == rev_row["Approved Amt"].v
        b == rev_row["BillAmt"].v
    IN  rev_out = Num(IF s > 0 THEN s
                      ELSE IF g > 0 THEN g + d
                      ELSE IF a > 0 THEN a + d
                      ELSE b)

\* C2 witness: no settlement amount, both Settlement Gross and Approved Amt
\* positive and different, a deposit balance: the revenue is gross + deposit.
C2_Witness ==
  /\ rev_pc = "returned"
  /\ AllNumbers(rev_row)
  /\ rev_row["stlmt_amt"].v <= 0
  /\ rev_row["Settlement Gross"].v > 0
  /\ rev_row["Approved Amt"].v > rev_row["Settlement Gross"].v
  /\ rev_row["DepBalAmt"].v > 0
  /\ rev_out = Num(rev_row["Settlement Gross"].v + rev_row["DepBalAmt"].v)

\* C6: clean_name is idempotent: cleaning a cleaned name (or the cleaned
\* missing value) gives the same text again.
C6_CleanNameIdempotent == name_pc = "twice" => name_twice = name_once

IsNumericAge(age) == age.kind \in {"num", "numtext"}

\* C7: get_age_group maps every age below 18 to "Less than 18 years", every
\* age from 18 up to but not including 65 to "Less than 65 years", every age
\* of 65 or more to "Greater than equal 65 years", and every age that is not
\* a number to "Unknown".
C7_AgeBands ==
  age_group \notin {"not called", "idle"} =>
    /\ (IsNumericAge(age_arg) /\ age_arg.v < Age18 * AgeUnit)
          => age_group = "Less than 18 years"
    /\ (IsNumericAge(age_arg) /\ age_arg.v >= Age18 * AgeUnit /\ age_arg.v < Age65 * AgeUnit)
          => age_group = "Less than 65 years"
    /\ (IsNumericAge(age_arg) /\ age_arg.v >= Age65 * AgeUnit)
          => age_group = "Greater than equal 65 years"
    /\ ~IsNumericAge(age_arg) => age_group = "Unknown"

\* The claim's own reading of "the row's field equals one of the values
\* ignoring letter case".
EqualsOneOf(cell, a) ==
  /\ cell # NA
  /\ \E k \in 1..Len(a.vals) : LowerText(cell) = LowerText(a.vals[k])

\* C8: filter_ip_data called with a doctor name (one value or a list) that
\* matches no row returns an empty result and does not raise, whatever the
\* table holds, rows without a doctor name included.
C8_UnknownDoctorGivesEmpty ==
  ( /\ flt_pc = "done"
    /\ Truthy(flt_args["doc_name"])
    /\ \A i \in 1..Len(flt_table.rows) :
         ~EqualsOneOf(flt_table.rows[i]["DocName"], flt_args["doc_name"]) )
  => (flt_result.status = "returned" /\ flt_result.rows = <<>>)

SatisfiesAll(row, args) ==
  /\ \A i \in 1..Len(FilterOrder) :
       Truthy(args[FilterOrder[i].arg])
         => EqualsOneOf(row[FilterOrder[i].col], args[FilterOrder[i].arg])
  /\ DateFilterApplies(args["date_filter"])
       => InDateWindow(row["dschg_dt"], args["date_filter"])

\* C9: filter_ip_data returns exactly the rows of its table that satisfy
\* every supplied predicate, a categorical one being satisfied when the
\* row's field equals one of the values ignoring case, and one that is None
\* or empty imposing nothing.
C9_FilterReturnsExactRows ==
  flt_pc = "done" =>
    LET Sat(row) == SatisfiesAll(row, flt_args)
    IN  /\ flt_result.status = "returned"
        /\ flt_result.rows = SelectSeq(flt_table.rows, Sat)

Count(s, Test(_)) == Len(SelectSeq(s, Test))

TpaSafe ==
  LET failures == Count(tpa_log, FetchFailed)
      n == Len(tpa_log)
  IN  /\ n <= tpa_retries
      /\ \A k \in 1..(n - 1) : FetchFailed(tpa_log[k])
      /\ tpa_slept = tpa_delay * (IF tpa_pc = "sleep" THEN failures - 1 ELSE failures)
      /\ tpa_pc = "returned" =>
           \/ /\ n > 0 /\ ~FetchFailed(tpa_log[n])
              /\ tpa_result = tpa_log[n]
           \/ /\ n = tpa_retries /\ failures = n
              /\ tpa_result = "empty table"

\* C10: load_tpa_sheet makes at most `retries` fetch attempts, one after the
\* other; it returns what the first successful attempt fetched and attempts
\* nothing after it; it sleeps `delay` after each failed attempt; when every
\* attempt failed it returns an empty table; it always returns, and never
\* with a fetch error.
C10_BoundedRetry == []TpaSafe /\ <>(tpa_pc = "returned")

\* C10 witness: the default five attempts, the first two failed (one with an
\* SSL error), the third fetched the table, two delays slept.
C10_Witness ==
  /\ tpa_pc = "returned"
  /\ tpa_retries = DefaultRetries
  /\ tpa_delay = DefaultDelay
  /\ tpa_log = <<"SSLError", "Exception", "table">>
  /\ tpa_result = "table"
  /\ tpa_slept = 2 * DefaultDelay

\* ---- merge_data
Returned == merge_pc = "returned"

\* C1: whenever merge_data returns, the fact table it returns has at most
\* one row per admission number, the expired-patient join and its
\* normalisation of the admission numbers included.
C1_OneRowPerIpNo == Returned => KeysUnique(ip_merge_df, "ip_no")

\* The places of merge_data where the rows carry revenue and line revenue.
AfterRevenue == merge_pc \in {"dedup", "expired", "finish", "returned"}

\* |line revenue - revenue| is less than one currency unit.
WithinAUnit(row) == Abs(row["line_revenue"] * Scale - row["revenue"].v) < Scale

RowsOf(rows, ip) == {i \in 1..Len(rows) : rows[i]["ip_no"] = ip}

\* The scenario: one admission, its discharge with a bill of B > 0 and no
\* settlement, and charge lines for it whose amounts sum to B.
Scenario ==
  /\ Len(admission_df) = 1
  /\ Len(discharge_df) = 1
  /\ discharge_df[1]["ip_no"] = admission_df[1]["ip_no"]
  /\ Positive(discharge_df[1]["BillAmt"])
  /\ ~Positive(discharge_df[1]["stlmt_amt"])
  /\ data["tpa_data_df"].rows = <<>>
  /\ Len(ip_detail_df) = 2
  /\ \A i \in 1..2 : ip_detail_df[i]["ip_no"] = admission_df[1]["ip_no"]
  /\ \A i \in 1..2 : Positive(ip_detail_df[i]["amt"])
  /\ ip_detail_df[1]["amt"].v + ip_detail_df[2]["amt"].v = discharge_df[1]["BillAmt"].v

\* C4: in the scenario merge_data yields exactly one row for the admission,
\* with total revenue B, and the charge lines are apportioned their own
\* amounts: the line revenues recorded for the admission are, line by line,
\* the amounts of its charge lines.
C4_ScenarioApportionsLines ==
  (Returned /\ Scenario) =>
    /\ Len(ip_merge_df) = 1
    /\ ip_merge_df[1]["revenue"] = discharge_df[1]["BillAmt"]
    /\ \E rows \in SUBSET (1..Len(ip_merge_df)) :
         \E line \in [rows -> 1..Len(ip_detail_df)] :
           /\ \A i \in 1..Len(ip_detail_df) : \E r \in rows : line[r] = i
           /\ \A r, s \in rows : line[r] = line[s] => r = s
           /\ \A r \in rows :
                ip_merge_df[r]["line_revenue"] * Scale = ip_detail_df[line[r]]["amt"].v

\* The sum of the cleaned amounts of an admission's charge lines, a missing
\* amount counting for nothing.
RECURSIVE LineSum(_, _)
LineSum(S, ip) ==
  IF S = {} THEN 0
  ELSE LET i == CHOOSE j \in S : TRUE
           a == ip_detail_df[i]["amt"]
       IN  (IF a.k = "num" THEN a.v ELSE 0) + LineSum(S \ {i}, ip)

AfterAggregation ==
  merge_pc \in {"doctors", "tpa", "revenue", "dedup", "expired", "finish", "returned"}

\* C5: for every admission number with charge lines in the cleaned detail
\* table there is exactly one aggregated row, whose amt is the sum of the
\* admission's cleaned line amounts (a missing amount adding nothing), and
\* that amt is what the admission's fact-table row carries.
C5_AggregatedAmountIsSum ==
  AfterAggregation =>
    \A l \in 1..Len(ip_detail_df) :
      LET ip == ip_detail_df[l]["ip_no"]
          total == Num(LineSum(RowsOf(ip_detail_df, ip), ip))
      IN  /\ Cardinality(RowsOf(ip_detail_agg, ip)) = 1
          /\ \A g \in RowsOf(ip_detail_agg, ip) : ip_detail_agg[g]["amt"] = total
          /\ merge_pc = "doctors" =>
               \A r \in RowsOf(ip_merge_df, ip) : ip_merge_df[r]["amt"] = total

\* C5 witness: an admission of the fact table with two charge lines, one
\* with a missing amount, carrying the amount of the other.
C5_Witness ==
  /\ merge_pc = "doctors"
  /\ \E r \in 1..Len(ip_merge_df) :
       LET lines == RowsOf(ip_detail_df, ip_merge_df[r]["ip_no"])
       IN  /\ Cardinality(lines) = 2
           /\ \E i, j \in lines : /\ ip_detail_df[i]["amt"] = NaN
                                  /\ ip_detail_df[j]["amt"].k = "num"
                                  /\ ip_detail_df[j]["amt"].v > 0
                                  /\ ip_merge_df[r]["amt"] = ip_detail_df[j]["amt"]

\* The external spreadsheet is unavailable: its fetch failed, or it is empty.
SheetUnavailable == data["tpa_data_df"].state \in {"fetch failed", "columns missing"}

\* Every source but the spreadsheet is in place.
OtherSourcesSound ==
  \A k \in DOMAIN data \ {"tpa_data_df"} : data[k] = GoodSources[k]

\* C11: an unavailable external spreadsheet does not abort the pipeline:
\* merge_data does not raise, and the tables it returns leave the
\* TPA-derived fields of every admission missing.
C11_SheetUnavailableTolerated ==
  (merge_pc # "idle" /\ SheetUnavailable /\ OtherSourcesSound) =>
    /\ merge_pc # "raised"
    /\ Returned =>
         \A i \in 1..Len(ip_merge_df) :
           ip_merge_df[i]["Approved Amt"] = NaN /\ ip_merge_df[i]["Settlement Gross"] = NaN

\* ---- Refresh
\* The sources that have a cleaner.
CleanedSources ==
  {"ip_detail_df", "admission_list", "ip_discharge_df", "patient_detail_df",
   "doctor_master_df", "code_master_df", "tpa_mapping_df", "op_detail_df",
   "op_discharge_df", "marketing_agent_df", "op_deposit_df"}

StructuralFault(sources) ==
  \/ \E k \in CleanedSources : sources[k].state = "columns missing"
  \/ sources["code_master_df"].rows = <<>>

SessionAndFiles == <<session_ip_data, session_op_data, ip_data_csv, op_data_csv>>

\* C12: when a source table lacks a column its cleaner expects, or the code
\* master is empty, merge_data raises and returns no table; and when
\* merge_data raises during a Refresh, the session's IP and OP tables and the
\* two cache files are exactly as they were before the refresh.
C12_StructuralFaultRaisesAndKeepsState ==
  /\ (app_pc = "merging" /\ StructuralFault(data)) =>
       /\ merge_pc # "returned"
       /\ merge_pc \notin {"load", "clean"} => merge_pc = "raised"
  /\ (merge_pc = "raised" \/ message = "error: merge_data raised") =>
       /\ ip_merge_df = <<>> /\ op_merge_df = <<>>
       /\ SessionAndFiles = before_refresh

\* A refresh on a table without its columns has failed after an earlier one
\* had filled the session and the files.
C12_Witness ==
  /\ message = "error: merge_data raised"
  /\ last_success > 0
  /\ session_ip_data.by = last_success

\* ---- the cleaners on unparsable fields
AllColons(df) == \A i \in 1..Len(df.rows) : HasColon(df.rows[i])

\* C13: an unparsable field never aborts a cleaner: on a table that has its
\* columns, each of the cleaners of the IP detail, the admission list, the IP
\* discharge, the OP detail, the OP discharge, the patient details and the OP
\* deposit returns, whatever text its numeric and date fields hold.
C13_UnparsableFieldNeverAborts ==
  (merge_pc \notin {"idle", "load", "clean"} /\ \A k \in CleanedSources : data[k].state = "ok") =>
    /\ ~clean_ip_detail(data["ip_detail_df"]).raised
    /\ ~clean_admission_list(data["admission_list"]).raised
    /\ AllColons(data["ip_discharge_df"]) => ~clean_ip_discharge(data["ip_discharge_df"]).raised
    /\ ~clean_opd_detail(data["op_detail_df"]).raised
    /\ ~clean_op_discharge_df(data["op_discharge_df"]).raised
    /\ ~clean_patient_details(data["patient_detail_df"]).raised
    /\ ~clean_op_deposit(data["op_deposit_df"]).raised

RowsWithIpNo(ip) == {i \in 1..Len(ip_merge_df) : ip_merge_df[i]["ip_no"] = ip}

\* An admission number as the returned table writes it: normalised when
\* there is an expired-patient list.
AsReturned(ip) == IF data["expired_pt"].rows = <<>> THEN ip ELSE normalise_ip_no(ip)

\* C14: every admission number of the cleaned admission list yields exactly
\* one row of the returned IP fact table, and the table has as many rows as
\* there are cleaned admissions.
C14_OneRowPerAdmission ==
  Returned =>
    /\ Len(ip_merge_df) = Len(admission_df)
    /\ \A i \in 1..Len(admission_df) :
         Cardinality(RowsWithIpNo(AsReturned(admission_df[i]["ip_no"]))) = 1

\* ---- the latest row of a key
\* The places of merge_data where the cleaned tables stand.
AfterClean ==
  merge_pc \in {"discharge", "detail", "doctors", "tpa", "revenue", "dedup", "expired",
                "finish", "returned"}

RawDischarge == data["ip_discharge_df"].rows

\* The discharge timestamps of the register's rows of admission ip that have
\* one.
DischargeTimes(ip) ==
  {to_datetime(RawDischarge[i]["dschg_dt"]).t :
     i \in {j \in 1..Len(RawDischarge) :
              RawDischarge[j]["ip_no"] = ip /\ ~to_datetime(RawDischarge[j]["dschg_dt"]).nat}}

\* C15: clean_ip_discharge returns exactly one row per admission number of
\* the register, and the row it keeps is the one with the latest discharge
\* timestamp among that admission's rows that have a timestamp.
C15_LatestDischargeKept ==
  AfterClean =>
    /\ \A i \in 1..Len(RawDischarge) :
         Cardinality({j \in 1..Len(discharge_df) :
                        discharge_df[j]["ip_no"] = RawDischarge[i]["ip_no"]}) = 1
    /\ \A j \in 1..Len(discharge_df) :
         LET times == DischargeTimes(discharge_df[j]["ip_no"])
         IN  times # {} =>
               /\ ~discharge_df[j]["dschg_dt"].nat
               /\ \A t \in times : t <= discharge_df[j]["dschg_dt"].t

RawPatients == data["patient_detail_df"].rows

PatientNo(row) == IF isna(row["ptn_no"]) THEN NA ELSE Strip(row["ptn_no"])

\* The creation timestamps of the register's rows of patient p that have one.
PatientTimes(p) ==
  {to_datetime(RawPatients[i]["crt_dt"]).t :
     i \in {j \in 1..Len(RawPatients) :
              PatientNo(RawPatients[j]) = p /\ ~to_datetime(RawPatients[j]["crt_dt"]).nat}}

\* C16: clean_patient_details returns exactly one row per patient number,
\* the one with the latest creation timestamp; a row whose timestamp is
\* missing or unparsable is kept only when the patient has no dated row.
C16_LatestPatientRowKept ==
  AfterClean =>
    LET patients == lookups["patient_details_df"]
    IN  /\ \A i \in 1..Len(RawPatients) :
             Cardinality({j \in 1..Len(patients) :
                            patients[j]["ptn_no"] = PatientNo(RawPatients[i])}) = 1
        /\ \A j \in 1..Len(patients) :
             LET times == PatientTimes(patients[j]["ptn_no"])
             IN  IF times = {} THEN patients[j]["crt_dt"].nat
                 ELSE /\ ~patients[j]["crt_dt"].nat
                      /\ \A t \in times : t <= patients[j]["crt_dt"].t

\* A patient with an undated row before a dated one, written two ways, has
\* been cleaned to one row.
C16_Witness ==
  /\ AfterClean
  /\ Len(RawPatients) = 2
  /\ RawPatients[1]["ptn_no"] # RawPatients[2]["ptn_no"]
  /\ PatientNo(RawPatients[1]) = PatientNo(RawPatients[2])
  /\ RawPatients[1]["crt_dt"] = BadDateCell
  /\ RawPatients[2]["crt_dt"] = DmyCell(1)
  /\ Len(lookups["patient_details_df"]) = 1

\* ---- the reference tables
\* C17: the cleaners of the doctor master, the code master and the TPA
\* mapping return no two rows with the same normalised key, so that the
\* many-to-one lookups never fail on a duplicate key.
C17_ReferenceKeysUnique ==
  /\ AfterClean =>
       /\ KeysUnique(lookups["doctor_master_df"], "Doctor Mapping")
       /\ KeysUnique(lookups["code_master_df"], "srv_desc_mapping")
       /\ KeysUnique(lookups["tpa_mapping_df"], "company_mapping")
  /\ data \in CodeMasterSources => merge_pc # "raised"

\* ---- the date window
InResult(row) == \E k \in 1..Len(flt_result.rows) : flt_result.rows[k] = row

NoCategoricalFilter == \A i \in 1..Len(FilterOrder) : ~Truthy(flt_args[FilterOrder[i].arg])

\* C18: a row whose discharge date is missing or unparsable is in no
\* date-windowed result and causes no error; without a date filter such a
\* row is kept, when it passes the other filters.
C18_UndatedRowsAndTheWindow ==
  flt_pc = "done" =>
    /\ NoCategoricalFilter => flt_result.status = "returned"
    /\ flt_result.status = "returned" =>
         \A i \in 1..Len(flt_table.rows) :
           flt_table.rows[i]["dschg_dt"].nat =>
             (InResult(flt_table.rows[i]) <=>
                /\ ~DateFilterApplies(flt_args["date_filter"])
                /\ SatisfiesAll(flt_table.rows[i], flt_args))

\* A window has been applied to a table with an undated row and a row dated
\* inside the window, and only the dated row is returned.
C18_Witness ==
  /\ flt_pc = "done"
  /\ DateFilterApplies(flt_args["date_filter"])
  /\ flt_result.status = "returned"
  /\ Len(flt_table.rows) = 2
  /\ flt_table.rows[1]["dschg_dt"].nat
  /\ ~flt_table.rows[2]["dschg_dt"].nat
  /\ flt_result.rows = <<flt_table.rows[2]>>

\* ---- the session and the cache files
FilesOfOneRefresh ==
  /\ ip_data_csv.by = op_data_csv.by
  /\ ip_data_csv = NoFile <=> op_data_csv = NoFile

\* C19: after any sequence of application starts and Refresh actions, the
\* two cache files were written by the same refresh; the session's tables
\* are those of the most recent successful refresh of the session or, when
\* there was none, what was read from the cache files at startup; and a
\* successful refresh has written both files with its tables.
C19_SessionAndCacheAgree ==
  app_pc = "idle" =>
    /\ FilesOfOneRefresh
    /\ IF last_success > 0
       THEN /\ session_ip_data.origin = "merge_data" /\ session_ip_data.by = last_success
            /\ session_op_data.origin = "merge_data" /\ session_op_data.by = last_success
       ELSE <<session_ip_data, session_op_data>> = at_start
    /\ message = "success" =>
         /\ last_success = refresh_no
         /\ ip_data_csv = to_csv(session_ip_data)
         /\ op_data_csv = to_csv(session_op_data)

\* ---- the credit company
\* The company names the register and the sheet supply for admission ip.
RegisterNames(ip) ==
  {UpperText(Strip(RawDischarge[i]["Textbox142"].name)) :
     i \in {j \in 1..Len(RawDischarge) :
              /\ RawDischarge[j]["ip_no"] = ip
              /\ RawDischarge[j]["Textbox142"].colon
              /\ Strip(RawDischarge[j]["Textbox142"].name) # <<>>}}

SheetNames(ip) ==
  LET sheet == data["tpa_data_df"].rows
  IN  {sheet[i]["CREDIT COMPANY"] :
         i \in {j \in 1..Len(sheet) :
                  /\ sheet[j]["voucher_number"] = ip
                  /\ ~isna(sheet[j]["CREDIT COMPANY"])
                  /\ sheet[j]["CREDIT COMPANY"] # <<>>}}

\* C20: for every admission of the IP fact table CREDIT COMPANY is the
\* discharge register's company whenever the register supplies a name for
\* the admission, and the external sheet's company whenever the register
\* supplies none (no discharge row, or a row from which no name could be
\* extracted) and the sheet has one.
C20_CreditCompanyPrefersRegister ==
  (Returned /\ data["tpa_data_df"].state = "ok") =>
    \A i \in 1..Len(ip_merge_df) :
      LET ip == ip_merge_df[i]["ip_no"]
          company == ip_merge_df[i]["CREDIT COMPANY"]
      IN  IF RegisterNames(ip) # {} THEN company \in RegisterNames(ip)
          ELSE SheetNames(ip) # {} => company \in SheetNames(ip)

\* ---- the expiry flag
Yes == <<"y", "e", "s">>

No == <<"n", "o">>

\* The step of merge_data that attaches the flag.
FlagAttached == merge_pc = "expired" /\ merge_pc' = "finish"

ExpiredRows == data["expired_pt"].rows

TrimmedExpired == {Strip(AsStr(ExpiredRows[j]["ip_no"])) : j \in 1..Len(ExpiredRows)}

AsciiExpired == {RemoveNonAscii(ip) : ip \in TrimmedExpired}

\* C21 as claimed: every row of the fact table has patient_expired 'yes' or
\* 'no', 'yes' exactly when the row's admission number, trimmed, is in the
\* expired-patient list; attaching the flag adds and removes no row.
C21_FlagMatchesTrimmedList ==
  [][FlagAttached =>
       /\ Len(ip_merge_df') = Len(ip_merge_df)
       /\ \A i \in 1..Len(ip_merge_df) :
            /\ ip_merge_df'[i]["patient_expired"] \in {Yes, No}
            /\ ip_merge_df'[i]["patient_expired"] = Yes
                 <=> Strip(AsStr(ip_merge_df[i]["ip_no"])) \in TrimmedExpired]_vars

\* C21: every row of the fact table has patient_expired 'yes' or 'no', 'yes'
\* exactly when the row's admission number is in the expired-patient list,
\* both trimmed and with the characters outside ASCII removed; attaching the
\* flag adds and removes no row.
C21_FlagMatchesNormalisedList ==
  [][FlagAttached =>
       /\ Len(ip_merge_df') = Len(ip_merge_df)
       /\ \A i \in 1..Len(ip_merge_df) :
            /\ ip_merge_df'[i]["patient_expired"] \in {Yes, No}
            /\ ip_merge_df'[i]["patient_expired"] = Yes
                 <=> RemoveNonAscii(Strip(AsStr(ip_merge_df[i]["ip_no"]))) \in AsciiExpired]_vars

\* Admission 'Aé' is flagged by a list that names 'A', and the admission
\* after it is not flagged.
C21_Witness ==
  /\ Returned
  /\ Len(ip_merge_df) = 2
  /\ admission_df[1]["ip_no"] = <<"A", "é">>
  /\ ip_merge_df[1]["patient_expired"] = Yes
  /\ ip_merge_df[2]["patient_expired"] = No

\* The expired-patient source is absent (no CSV file in its folder) or has
\* no rows.
NoExpiredList == data["expired_pt"] \in {NoneTable, Table(<<>>)}

\* Every source but the expired-patient list is in place.
SourcesSoundButExpired ==
  \A k \in DOMAIN data \ {"expired_pt"} : data[k] = GoodSources[k]

\* C22: when the expired-patient source is absent or empty, merge_data
\* still completes and every row of the IP fact table has patient_expired
\* 'no'.
C22_NoExpiredListGivesNo ==
  (merge_pc # "idle" /\ NoExpiredList /\ SourcesSoundButExpired) =>
    /\ merge_pc # "raised"
    /\ Returned => \A i \in 1..Len(ip_merge_df) : ip_merge_df[i]["patient_expired"] = No

\* ---- the canonical columns
CanonicalColumns ==
  {"ip_no", "ptn_no", "dis_year", "dis_month_name", "line_revenue", "DocName", "refname",
   "patient_expired", "consultant_specialty", "Group", "referral_specialty",
   "CREDIT COMPANY", "TPA/CORPORATE"}

NumericCanonical == {"dis_year", "line_revenue"}

PeriodDone == per_pc = "done"

\* C24: for every selected date range [start, end] the prior-period window
\* spans as many days as the current window, end - start + 1.
C24_PriorWindowOfEqualSpan ==
  PeriodDone =>
    (per_prev.end - per_prev.start) + 1 = (per_end - per_start) + 1

\* The amount a claim reads in a cell: the number, or 0 for a missing or
\* unparsable one.
ZeroIfMissing(x) == IF to_numeric(x).k = "num" THEN to_numeric(x).v ELSE 0

\* C25: compute_revenue counts every missing or unparsable amount as 0 and
\* always returns a number; with no positive settlement amount, a positive
\* Settlement Gross g (or, failing that, a positive Approved Amt g) and a
\* missing deposit balance the revenue is g.
C25_MissingAmountsCountAsZero ==
  rev_pc = "returned" =>
    /\ rev_out.k = "num"
    /\ ( /\ ZeroIfMissing(rev_row["stlmt_amt"]) <= 0
         /\ rev_row["DepBalAmt"] = NaN )
       => IF ZeroIfMissing(rev_row["Settlement Gross"]) > 0
          THEN rev_out = Num(ZeroIfMissing(rev_row["Settlement Gross"]))
          ELSE ZeroIfMissing(rev_row["Approved Amt"]) > 0
               => rev_out = Num(ZeroIfMissing(rev_row["Approved Amt"]))

RawAdmissions == data["admission_list"].rows

\* C26: clean_admission_list keeps a row for every non-empty admission number
\* that has a raw row with a parsable admission date, whatever the order of
\* the raw rows; an admission number is dropped only when none of its rows
\* has a parsable date.
C26_DatedAdmissionsKept ==
  AfterClean =>
    \A i \in 1..Len(RawAdmissions) :
      LET ip == Strip(AsStr(RawAdmissions[i]["ip_no"]))
      IN  (ip # <<>> /\ ~to_datetime(RawAdmissions[i]["Textbox73"]).nat)
            => \E j \in 1..Len(admission_df) : admission_df[j]["ip_no"] = ip

\* The calendar day of the timestamp lies from the window's start day
\* through its end day.
OnDayOfWindow(ts, window) == ~ts.nat /\ window.s <= DayOf(ts) /\ DayOf(ts) <= window.e

SatisfiesCategorical(row, args) ==
  \A i \in 1..Len(FilterOrder) :
    Truthy(args[FilterOrder[i].arg])
      => EqualsOneOf(row[FilterOrder[i].col], args[FilterOrder[i].arg])

\* C27: with a date filter (start, end) the result keeps every row whose
\* discharge timestamp falls on a calendar day from start through end,
\* whatever its time of day; a discharge at any hour of the end date is
\* included.
C27_WholeEndDayIncluded ==
  (flt_pc = "done" /\ flt_result.status = "returned"
     /\ DateFilterApplies(flt_args["date_filter"])) =>
    \A i \in 1..Len(flt_table.rows) :
      ( /\ OnDayOfWindow(flt_table.rows[i]["dschg_dt"], flt_args["date_filter"])
        /\ SatisfiesCategorical(flt_table.rows[i], flt_args) )
      => InResult(flt_table.rows[i])

ReportShown == rpt_pc \in {"discharges shown", "deaths shown"} /\ rpt_summary.status = "returned"

\* The rows the report is about: discharged in the chosen month and year
\* and, in the death report, expired.
Reported ==
  ReportSelection(rpt_df, "dschg_dt", rpt_month, rpt_year,
                  IF rpt_pc = "deaths shown" THEN "Yes" ELSE "None")

\* A known age that lies in band n.
KnownAgeIn(age, n) ==
  /\ IsNumericAge(age)
  /\ CASE n = 1 -> age.v < Age18 * AgeUnit
       [] n = 2 -> age.v >= Age18 * AgeUnit /\ age.v < Age65 * AgeUnit
       [] OTHER -> age.v >= Age65 * AgeUnit

KnownInBand(n, sex) ==
  Cardinality({i \in 1..Len(Reported) :
                 KnownAgeIn(Reported[i]["Age"], n) /\ SexOf(Reported[i]) = sex})

\* C28: an admission whose age is missing is counted in none of the three
\* age bands: each band counts only the admissions whose known age lies in
\* it.
C28_MissingAgeInNoBand ==
  ReportShown =>
    \A n \in 1..Len(AgeBands) :
      /\ rpt_summary.table[AgeBands[n]]["Male"] = KnownInBand(n, Male)
      /\ rpt_summary.table[AgeBands[n]]["Female"] = KnownInBand(n, Female)

\* C30: in every row of the returned table, the three bands and the Total
\* row, the Total column equals Male + Female.
C30_TotalIsMalePlusFemale ==
  ReportShown =>
    \A label \in DOMAIN rpt_summary.table :
      rpt_summary.table[label]["Total"]
        = rpt_summary.table[label]["Male"] + rpt_summary.table[label]["Female"]

\* C29: for the same fact table and the same selections, the current-period
\* table filtered_df of ip_filter_ui holds exactly the rows filter_ip_data
\* returns for those selections.
C29_FilterUiAgreesWithFilterIpData ==
  ui_pc = "shown" =>
    /\ ui_details.status = "returned"
    /\ ui_details.rows = ui_filters.filtered_df

====
